---- MODULE Spec2Model ----
(***************************************************************************)
(* A model of the Clara pipeline operator sizing tool (cpost):             *)
(*   - topology_sort.py : PipelineDAG and topo_sort_pipeline               *)
(*   - pipeline_utils.py: start_operator, sample_operator, run_operator,   *)
(*                        run_pipeline_alone, run_pipeline_with_services   *)
(*   - triton_utils.py  : start_triton, run_triton_model_repo              *)
(*   - container.py     : Container.sample_metrics                          *)
(***************************************************************************)
EXTENDS Integers, Sequences, FiniteSets, TLC

(***************************************************************************)
(* Bounds of the model.                                                    *)
(***************************************************************************)
\* largest number of operators of a pipeline handed to the sorter
MaxOps == 4
\* largest total number of input bindings of a pipeline handed to the sorter
MaxEdges == 3

(***************************************************************************)
(* Part I.  topology_sort.py                                               *)
(***************************************************************************)

\* an input binding without a `from` key: input_path.get("from") is None
NoFrom == 0

\* operator names; a name that no operator of the pipeline carries is a
\* reference to an operator that is not in the pipeline
Names == 1..MaxOps

FromValues == Names \cup {NoFrom}

\* the nodes a PipelineDAG may hold: operator names, and the integer nodes
\* 0..5 of test_topo_sort
Nodes == Names \cup (0..5)

SeqsUpTo(S, k) == UNION {[1..m -> S] : m \in 0..k}

RECURSIVE InputLists(_, _)
\* the n-tuples of input-binding lists that hold at most k bindings in all
InputLists(n, k) ==
    IF n = 0 THEN {<<>>}
    ELSE UNION { { <<s>> \o rest : rest \in InputLists(n - 1, k - Len(s)) } :
                 s \in SeqsUpTo(FromValues, k) }

\* OperatorConfig as the sorter reads it: name and the `from` of each input
OperatorConfig(n, ins) == [name |-> n, inputs |-> ins]

\* the pipelines handed to the sorter: the i-th operator of the list is named
\* i, its bindings may name any operator, listed before or after it or absent
Pipelines(n) ==
    { [i \in 1..n |-> OperatorConfig(i, il[i])] :
        il \in InputLists(n, MaxEdges) }

\* the local variable dag of topo_sort_pipeline while no PipelineDAG is bound
NoDag == [deg_keys |-> "unbound"]

\* PipelineDAG.__init__: two empty defaultdicts.  A defaultdict is a set of
\* keys (input_deg_graph: in insertion order) and the value of each key.
PipelineDAG ==
    [deg_keys |-> <<>>, deg |-> [n \in Nodes |-> 0],
     out_keys |-> {}, out |-> [n \in Nodes |-> <<>>]]

InSeq(x, s) == \E i \in 1..Len(s) : s[i] = x

\* defaultdict access: the key is registered when it is first touched
Touch(keys, k) == IF InSeq(k, keys) THEN keys ELSE Append(keys, k)

\* PipelineDAG.add_input_edge
add_input_edge(dag, node, input_node) ==
    [deg_keys |-> Touch(Touch(dag.deg_keys, input_node), node),
     deg      |-> [dag.deg EXCEPT ![node] = @ + 1],
     out_keys |-> dag.out_keys \cup {input_node},
     out      |-> [dag.out EXCEPT ![input_node] = Append(@, node)]]

RECURSIVE Relax(_, _, _)
\* the inner for loop of topological_sort over output_graph[cur_node]:
\* st = [deg, zero]; every successor loses one in-degree and is queued the
\* moment its in-degree is zero
Relax(succ, deg, zero) ==
    IF succ = <<>> THEN [deg |-> deg, zero |-> zero]
    ELSE LET i == Head(succ)
             d == [deg EXCEPT ![i] = @ - 1]
         IN Relax(Tail(succ), d, IF d[i] = 0 THEN Append(zero, i) ELSE zero)

RECURSIVE Kahn(_, _, _, _, _, _)
\* the while loop of topological_sort; reading output_graph[cur_node]
\* registers cur_node as a key of output_graph
Kahn(out, zero, topo_order, deg, out_keys, visited_count) ==
    IF zero = <<>>
    THEN [topo_order |-> topo_order, out_keys |-> out_keys,
          visited_count |-> visited_count]
    ELSE LET cur_node == Head(zero)
             r == Relax(out[cur_node], deg, Tail(zero))
         IN Kahn(out, r.zero, Append(topo_order, cur_node), r.deg,
                 out_keys \cup {cur_node}, visited_count + 1)

RECURSIVE SortedByName(_)
\* the nodes of a set in ascending order
SortedByName(S) ==
    IF S = {} THEN <<>>
    ELSE LET least == CHOOSE n \in S : \A m \in S : n <= m
         IN  <<least>> \o SortedByName(S \ {least})

\* the seed of the queue ordered by name
ZeroIndegreeByName(dag) ==
    SortedByName({n \in Nodes : InSeq(n, dag.deg_keys) /\ dag.deg[n] = 0})

\* the seed of the queue: the keys of input_deg_graph with in-degree 0, in
\* the order of first registration
ZeroIndegree(dag) == SelectSeq(dag.deg_keys, LAMBDA n : dag.deg[n] = 0)

\* PipelineDAG.topological_sort: the order, or the RuntimeError of a cycle
topological_sort(dag) ==
    LET k == Kahn(dag.out, ZeroIndegree(dag), <<>>, dag.deg, dag.out_keys, 0)
    IN IF k.visited_count # Cardinality(k.out_keys)
       THEN [status |-> "RuntimeError", order |-> <<>>]
       ELSE [status |-> "ok", order |-> k.topo_order]

RECURSIVE AddInputs(_, _, _)
\* for input_path in op.inputs: if input_path.get("from"): add_input_edge
AddInputs(dag, name, inputs) ==
    IF inputs = <<>> THEN dag
    ELSE AddInputs(IF Head(inputs) # NoFrom
                   THEN add_input_edge(dag, name, Head(inputs))
                   ELSE dag,
                   name, Tail(inputs))

RECURSIVE BuildDag(_, _)
\* for op in operators: ...
BuildDag(dag, ops) ==
    IF ops = <<>> THEN dag
    ELSE BuildDag(AddInputs(dag, Head(ops).name, Head(ops).inputs), Tail(ops))

HasName(ops, n) == \E i \in 1..Len(ops) : ops[i].name = n

\* op_dict = {op.name: op for op in operators}: the last operator of a name
op_dict(ops, n) ==
    ops[CHOOSE i \in 1..Len(ops) :
          /\ ops[i].name = n
          /\ \A j \in 1..Len(ops) : ops[j].name = n => j <= i]

\* topo_sort_pipeline: the sorted list, the cycle error of the graph, or the
\* KeyError of a sorted name that no operator carries
\* a sorter without the shortcut for one operator
never_single(ops) == FALSE

\* topo_sort_pipeline line 91: `if len(operators) == 1`
is_single(ops) == Len(ops) = 1

\* topo_sort_pipeline: the local variable dag when the function returns or
\* raises; it is not bound when the shortcut is taken
sorter_dag(ops) ==
    IF is_single(ops) THEN NoDag ELSE BuildDag(PipelineDAG, ops)

topo_sort_pipeline(ops) ==
    IF is_single(ops)
    THEN [status |-> "ok", order |-> ops]
    ELSE LET sequence == topological_sort(BuildDag(PipelineDAG, ops))
         IN IF sequence.status # "ok" THEN sequence
            ELSE IF \E i \in 1..Len(sequence.order) :
                       ~HasName(ops, sequence.order[i])
            THEN [status |-> "KeyError", order |-> <<>>]
            ELSE [status |-> "ok",
                  order |-> [i \in 1..Len(sequence.order) |->
                               op_dict(ops, sequence.order[i])]]

(***************************************************************************)
(* Part II.  pipeline_utils.py and triton_utils.py: one run of the         *)
(* pipeline.  The processes of a run are the orchestration flow (main),    *)
(* the launcher p_start, the container-runtime client cmd_proc, the drain  *)
(* task checker, the csv writers, and the containers themselves.           *)
(***************************************************************************)

\* number of operators of the executed pipeline
NumOps == 2
\* largest number of raw samples read for one container
MaxSamples == 2

OpIds == 1..NumOps

\* ServiceConfig: the name, the identity image_n_tag + " " + command, and
\* http_connections as the set of its items
TritonA == [name |-> "triton", key |-> "imgA cmd",
            http_connections |-> {<<"NVIDIA_TRITON_A", 8000>>}]
TritonB == [name |-> "trtis", key |-> "imgB cmd",
            http_connections |-> {<<"NVIDIA_TRITON_B", 8000>>}]
OtherSvc == [name |-> "other service", key |-> "imgC cmd",
             http_connections |-> {<<"OTHER", 9000>>}]

\* "trtis" in service.name or "triton" in service.name
IsTritonName(name) == name \in {"triton", "trtis"}

\* OperatorConfig as the orchestrator reads it: models and services
RunOperatorConfigs ==
    { [models |-> m, services |-> s, variables |-> {}] :
        <<m, s>> \in { <<FALSE, <<>> >>, <<TRUE, <<>> >>,
                       <<FALSE, <<TritonA>> >>, <<FALSE, <<TritonB>> >>,
                       <<FALSE, <<OtherSvc>> >>,
                       <<FALSE, <<TritonA, TritonB>> >> } }

\* OperatorConfig.update_variables: {**var_dict, **self.variables}, the
\* dictionaries as the sets of their items
update_variables(variables, var_dict) ==
    variables \cup
        {e \in var_dict : ~\E v \in variables : v[1] = e[1]}

\* inspect_ip_address: every container has an address of its own
inspect_ip_address(cid) == cid

\* {k: f"{ip_address}:{v}" for k, v in service.http_connections.items()}
http_connections_dict(service, ip_address) ==
    {<<e[1], <<ip_address, e[2]>> >> : e \in service.http_connections}

\* cli.py ContinueOptions: NONE is the prompt
ContinueOptions == {"NONE", "CONT", "STOP"}

\* the decision that prefers the pipeline services and never exits
DecideModePreferServices(model_repo, services) ==
    IF services THEN "PIPELINE_SERVICES"
    ELSE IF model_repo THEN "MODEL_REPO"
    ELSE "NO_INFERENCE_SERVER"

\* the decision that prefers the model repository and never exits
DecideModePreferRepo(model_repo, services) ==
    IF model_repo THEN "MODEL_REPO"
    ELSE IF services THEN "PIPELINE_SERVICES"
    ELSE "NO_INFERENCE_SERVER"

\* triton_utils.decide_method_to_run_triton, lines 112-118: the decision
\* from the two flags the scan of the operators has set
DecideMode(model_repo, services) ==
    IF model_repo /\ services THEN "SystemExit"
    ELSE IF model_repo THEN "MODEL_REPO"
    ELSE IF services THEN "PIPELINE_SERVICES"
    ELSE "NO_INFERENCE_SERVER"

\* the operators a pipeline of the given mode may hold
ConfigsOfMode(mode) ==
    { c \in RunOperatorConfigs :
        /\ c.models => mode = "MODEL_REPO"
        /\ c.services # <<>> => mode = "PIPELINE_SERVICES" }

NoOperator == [models |-> FALSE, services |-> <<>>, variables |-> {}]

\* decide_method_to_run_triton, lines 105-111: the operator sets a flag
Declares(c) == c.models \/ c.services # <<>>

\* exit code of a multiprocessing.Process ended by SIGTERM
SIGTERM == -15
\* an exit status other than 0 printed by `docker wait`
NonZeroStatus == 125

NotRun == [status |-> "unset", order |-> <<>>]

VARIABLES
    operators,        \* main.py: pipeline_config.operators, the sorter's input
    execution_order,  \* main.py: the result of topo_sort_pipeline(operators)
    resorted,         \* the result of sorting execution_order once more
    local_dag,      \* topo_sort_pipeline: the local dag of the last call
    uses_models,      \* run_pipeline: some operator of execution_order has models
    uses_services,    \* run_pipeline: some operator of execution_order has services
    op_config,        \* the for loop: the operator being executed
    prev_config,      \* the operator of the iteration before, as it was left
    docker_cmd,       \* the --env entries of the command build_operator_cmd built
    declared,         \* the for loop: an operator with the models or services
                      \* that decided the mode has been reached
    continue_option,  \* run_pipeline: the failure policy
    metrics_output,   \* run_pipeline: TRUE iff a metrics directory (Path) is given
    triton_mode,      \* run_pipeline: the RUN_MODE decided
    pc,               \* position of the orchestration flow
    exc,              \* the exception propagating in the orchestration flow
    idx,              \* the for loop: number of the operator being executed
    exit,             \* the value run_operator returned
    tmpdir,           \* the TemporaryDirectory data_folder_name
    svc_todo,         \* start_pipeline_services: services still to reconcile
    running_services, \* the running-services registry: identity -> container
    svc_count,        \* number of service containers started so far
    svc_running,      \* the service containers that are running
    triton_container_id, \* run_triton_model_repo: the local variable, 0 unbound
    client,           \* per operator: cmd_proc
    container,        \* per operator: the operator's container
    out_line,         \* the line cmd_proc wrote to the stdout the launcher drains
    checker,          \* the drain task of the launcher
    pcL,              \* position of the launcher p_start
    exitcode,         \* p_start.exitcode once p_start has ended
    wait_stdout,      \* start_operator: docker_wait_proc.stdout, stripped
    q,                \* start_operator: the drain queue
    raw_id,           \* start_operator: the line q.get_nowait() returned
    container_id,     \* the shared Value, 0 is ''
    id_returned_event,\* the shared Event
    timed_out,        \* run_operator: id_returned_event.wait returned False
    raw_metrics,      \* len(container.raw_metrics)
    metrics,          \* len(container.metrics)
    sample_calls,     \* sample_operator: calls of container.sample_metrics()
    checks_true,      \* sample_operator: metrics_path_exists() returned True
    loop_false,       \* sample_operator: False returned at the sampling loop
    writer,           \* per operator: the csv writer process
    write_que,        \* run_operator: the items put on write_que so far
    summary_key,      \* pipeline_summary_dict: the key that holds the summary
                      \* of the operator being executed
    ONLINE_CPUS,      \* constants.py: the number of online cpus of the host
    container_raw_metrics, \* Container.raw_metrics, the list of RawMetrics
    container_metrics,\* Container.metrics, the list of Metrics
    read_errors,      \* sample_metrics: read errors swallowed so far
    sampled,          \* the value the last call of sample_metrics returned
    operator_summary, \* print_operator_summary: the row of the operator
    graph,            \* a PipelineDAG built by add_input_edge alone
    sequence,         \* what graph.topological_sort() returned
    status_pc,        \* position of check_triton_status, or how it ended
    attempts,         \* check_triton_status: passes of the while loop begun
    triton_models_names, \* check_triton_status: the models to verify
    verified,         \* check_triton_status: passes of the for loop done
    requests_get,     \* the calls of requests.get so far, with their outcome
    container_self_id,\* Container.id
    container_metric_paths, \* Container.metric_paths, <<>> the empty tuple
    read_errno,       \* sample_metrics: errno of the read that failed in the
                      \* last call, 0 when every read succeeded
    raised,           \* Container: the exception the last call raised
    csv_que,          \* write_to_csv: the items on its queue, oldest first
    csv_file,         \* write_to_csv: the lines of output_file
    writer_pc,        \* position of write_to_csv
    sampler_pc        \* position of sample_operator

sortVars == <<operators, execution_order, resorted, local_dag>>

cfgVars == <<uses_models, uses_services, continue_option, metrics_output>>

mainVars == <<triton_mode, pc, exc, idx, op_config, prev_config, docker_cmd,
              declared,
              exit, tmpdir>>

svcVars == <<svc_todo, running_services, svc_count, svc_running,
             triton_container_id>>

procVars == <<client, container, out_line, checker>>

launchVars == <<pcL, exitcode, wait_stdout, q, raw_id, container_id,
               id_returned_event>>

callVars == <<sample_calls, checks_true, loop_false>>

sampleVars == <<timed_out, raw_metrics, metrics, callVars>>

outVars == <<writer, write_que, summary_key>>

runVars == <<cfgVars, mainVars, svcVars, procVars, launchVars, sampleVars,
             outVars>>

dagVars == <<graph, sequence>>

probeVars == <<status_pc, attempts, triton_models_names, verified,
              requests_get>>

lifeVars == <<container_self_id, container_metric_paths, read_errno, raised>>

csvVars == <<csv_que, csv_file, writer_pc, sampler_pc>>

unitVars == <<ONLINE_CPUS, container_raw_metrics, container_metrics,
             read_errors, sampled, operator_summary, dagVars, probeVars,
             lifeVars, csvVars>>

\* check_triton_status was not called
ProbeIdle ==
    /\ status_pc = "idle"
    /\ attempts = 0
    /\ triton_models_names = <<>>
    /\ verified = 0
    /\ requests_get = <<>>

vars == <<sortVars, runVars, unitVars>>

NoValue == [kind |-> "unset"]

\* Container.__init__, lines 54-55, and no call made yet; no writer process
\* and no sampler
ContainerInit ==
    /\ container_self_id = ""
    /\ container_metric_paths = <<>>
    /\ read_errno = 0
    /\ raised = "none"
    /\ csv_que = <<>>
    /\ csv_file = <<>>
    /\ writer_pc = "none"
    /\ sampler_pc = "none"

\* a Container that was constructed and never sampled
UnitIdle ==
    /\ ONLINE_CPUS = 1
    /\ container_raw_metrics = <<>>
    /\ container_metrics = <<>>
    /\ read_errors = 0
    /\ sampled = NoValue
    /\ operator_summary = NoValue
    /\ graph = PipelineDAG
    /\ sequence = NotRun
    /\ ProbeIdle
    /\ ContainerInit

\* the state of a run before run_pipeline is entered
RunIdle ==
    /\ triton_mode = "unset"
    /\ pc = "run_pipeline"
    /\ exc = "none"
    /\ idx = 0
    /\ op_config = NoOperator
    /\ prev_config = NoOperator
    /\ docker_cmd = {}
    /\ declared = FALSE
    /\ exit = FALSE
    /\ tmpdir = "none"
    /\ svc_todo = <<>>
    /\ running_services = {}
    /\ svc_count = 0
    /\ svc_running = {}
    /\ triton_container_id = 0
    /\ client = [i \in OpIds |-> "none"]
    /\ out_line = "none"
    /\ checker = "none"
    /\ container = [i \in OpIds |-> "none"]
    /\ pcL = "idle"
    /\ exitcode = 0
    /\ wait_stdout = "none"
    /\ q = "empty"
    /\ raw_id = "none"
    /\ container_id = 0
    /\ id_returned_event = FALSE
    /\ timed_out = FALSE
    /\ raw_metrics = 0
    /\ metrics = 0
    /\ sample_calls = 0
    /\ checks_true = 0
    /\ loop_false = 0
    /\ writer = [i \in OpIds |-> "none"]
    /\ write_que = <<>>
    /\ summary_key = "absent"

Init ==
    /\ operators = <<>>
    /\ execution_order = NotRun
    /\ resorted = NotRun
    /\ local_dag = NoDag
    /\ uses_models \in BOOLEAN
    /\ uses_services \in BOOLEAN
    /\ continue_option \in ContinueOptions
    /\ metrics_output \in BOOLEAN
    /\ RunIdle
    /\ UnitIdle

(***************************************************************************)
(* The orchestration flow.                                                 *)
(***************************************************************************)

\* the innermost handler around the for loop: the finally of
\* run_pipeline_with_services, or the exit of get_output_writers
Handler ==
    IF triton_mode = "PIPELINE_SERVICES" THEN "finally_services"
    ELSE "join_writers"

\* run_pipeline: decide the mode and enter the matching runner
RunPipeline ==
    /\ pc = "run_pipeline"
    /\ triton_mode' = DecideMode(uses_models, uses_services)
    /\ IF triton_mode' = "SystemExit"
       THEN exc' = "SystemExit" /\ pc' = "done"
       ELSE /\ exc' = exc
            /\ pc' = IF triton_mode' = "MODEL_REPO" THEN "check_models"
                     ELSE "mktemp"
    /\ UNCHANGED <<sortVars, unitVars, cfgVars, idx, op_config, prev_config, docker_cmd, declared, exit, tmpdir, svcVars, procVars,
                   launchVars, sampleVars, outVars>>

\* check_models_directory: the messages of its three sys.exit
ConfigurationErrors ==
    { "SystemExit: Model directory must be provided",
      "SystemExit: Model is missing in the models directory",
      "SystemExit: Expected name in config to be equal to directory name" }

\* run_triton_model_repo: check_models_directory returns or ends in sys.exit
CheckModelsDirectory ==
    /\ pc = "check_models"
    /\ \/ pc' = "triton_run" /\ exc' = exc
       \/ pc' = "repo_finally" /\ exc' \in ConfigurationErrors
    /\ UNCHANGED <<sortVars, unitVars, cfgVars, triton_mode, idx, op_config, prev_config, docker_cmd, declared, exit, tmpdir, svcVars,
                   procVars, launchVars, sampleVars, outVars>>

\* where an exception raised by start_triton is caught first
TritonHandler ==
    IF triton_mode = "MODEL_REPO" THEN "repo_finally" ELSE "finally_services"

\* start_triton, line 194: `docker run -d` through subproc_run_wrapper
StartTritonRun ==
    /\ pc = "triton_run"
    /\ \/ /\ svc_count' = svc_count + 1
          /\ svc_running' = svc_running \cup {svc_count + 1}
          /\ pc' = "triton_probe"
          /\ exc' = exc
       \/ /\ pc' = TritonHandler
          /\ exc' = "SystemExit"
          /\ UNCHANGED <<svc_count, svc_running>>
    /\ UNCHANGED <<sortVars, unitVars, cfgVars, triton_mode, idx, op_config, prev_config, docker_cmd, declared, exit, tmpdir,
                   svc_todo, running_services, triton_container_id,
                   procVars, launchVars, sampleVars, outVars>>

\* start_triton, lines 195-197: inspect_ip_address and check_triton_status,
\* then the caller's assignment of the returned pair
StartTritonProbe ==
    /\ pc = "triton_probe"
    /\ \/ /\ exc' = exc
          /\ IF triton_mode = "MODEL_REPO"
             THEN /\ triton_container_id' = svc_count
                  /\ pc' = "mktemp"
                  /\ UNCHANGED <<running_services, svc_todo, op_config>>
             ELSE LET ip_address == inspect_ip_address(svc_count) IN
                  /\ running_services' = running_services \cup
                        {[key |-> Head(svc_todo).key, cid |-> svc_count,
                          ip_address |-> ip_address]}
                  /\ op_config' =
                        [op_config EXCEPT !.variables =
                            update_variables(@,
                                http_connections_dict(Head(svc_todo),
                                                      ip_address))]
                  /\ svc_todo' = Tail(svc_todo)
                  /\ pc' = "services"
                  /\ UNCHANGED triton_container_id
       \/ /\ exc' \in {"SystemExit", "TimeoutError"}
          /\ pc' = TritonHandler
          /\ UNCHANGED <<running_services, svc_todo, triton_container_id,
                         op_config>>
    /\ UNCHANGED <<sortVars, unitVars, cfgVars, triton_mode, idx, prev_config, docker_cmd, declared, exit, tmpdir,
                   svc_count, svc_running, procVars, launchVars, sampleVars,
                   outVars>>

\* with TemporaryDirectory() as data_folder_name, and get_output_writers
MakeTempDir ==
    /\ pc = "mktemp"
    /\ tmpdir' = "exists"
    /\ pc' = "loop"
    /\ UNCHANGED <<sortVars, unitVars, cfgVars, triton_mode, exc, idx, op_config, prev_config, docker_cmd, declared, exit, svcVars,
                   procVars, launchVars, sampleVars, outVars>>

\* for op_config in execution_order; after the loop print_pipeline_summary
LoopNext ==
    /\ pc = "loop"
    /\ IF idx < NumOps
       THEN /\ idx' = idx + 1
            /\ op_config' \in ConfigsOfMode(triton_mode)
            /\ prev_config' = op_config
            /\ docker_cmd' = docker_cmd
            /\ declared' = (declared \/ Declares(op_config'))
            /\ (idx' = NumOps /\ triton_mode # "NO_INFERENCE_SERVER")
                   => declared'
            /\ IF op_config'.services # <<>>
               THEN svc_todo' = op_config'.services /\ pc' = "services"
               ELSE svc_todo' = svc_todo /\ pc' = "run_operator"
       ELSE /\ pc' = Handler
            /\ UNCHANGED <<idx, op_config, prev_config, docker_cmd, declared, svc_todo>>
    /\ UNCHANGED <<sortVars, unitVars, cfgVars, triton_mode, exc, exit, tmpdir,
                   running_services, svc_count, svc_running,
                   triton_container_id, procVars, launchVars, sampleVars,
                   outVars>>

\* clean_up_containers that clears the registry without `docker kill`
clear_without_kill(running_dict, running) == running

\* clean_up_containers: the service containers left running after
\* `docker kill` of every registered container (the registry is then cleared)
clean_up_containers(running_dict, running) ==
    running \ {r.cid : r \in running_dict}

\* start_pipeline_services: one pass of the for loop over op_config.services,
\* up to the call of start_triton
StartPipelineServices ==
    /\ pc = "services"
    /\ IF svc_todo = <<>>
       THEN /\ pc' = "run_operator"
            /\ UNCHANGED <<svc_todo, running_services, svc_running,
                           op_config>>
       ELSE LET service == Head(svc_todo) IN
            IF \E r \in running_services : r.key = service.key
            THEN LET r == CHOOSE r \in running_services :
                              r.key = service.key
                     ip_address == r.ip_address
                 IN  /\ op_config' =
                          [op_config EXCEPT !.variables =
                              update_variables(@,
                                  http_connections_dict(service, ip_address))]
                     /\ svc_todo' = Tail(svc_todo)
                     /\ pc' = "services"
                     /\ UNCHANGED <<running_services, svc_running>>
            ELSE /\ op_config' = op_config
                 /\ svc_running' =
                       clean_up_containers(running_services, svc_running)
                 /\ running_services' = {}
                 /\ IF IsTritonName(service.name)
                    THEN pc' = "triton_run" /\ svc_todo' = svc_todo
                    ELSE pc' = "services" /\ svc_todo' = Tail(svc_todo)
    /\ UNCHANGED <<sortVars, unitVars, cfgVars, triton_mode, exc, idx, prev_config, docker_cmd, declared, exit, tmpdir,
                   svc_count, triton_container_id, procVars, launchVars,
                   sampleVars, outVars>>

TRITON_HTTP_ENV_VAR == "NVIDIA_TRITON_HTTPURI"

TRITON_HTTP_PORT == 8000

TRITON_GRPC_ENV_VAR == "NVIDIA_TRITON_GRPCURI"

TRITON_GRPC_PORT == 8001

LEGACY_TRTIS_HTTP_ENV_VAR == "NVIDIA_CLARA_TRTISURI"

LEGACY_TRITON_HTTP_ENV_VAR == "CLARA_TRITON_URI"

\* build_operator_cmd that supplies the Triton variables to every operator
build_cmd_always_triton(op_config_, triton_ip_) ==
    { <<TRITON_HTTP_ENV_VAR, <<triton_ip_, TRITON_HTTP_PORT>> >>,
      <<LEGACY_TRITON_HTTP_ENV_VAR, <<triton_ip_, TRITON_HTTP_PORT>> >>,
      <<LEGACY_TRTIS_HTTP_ENV_VAR, <<triton_ip_, TRITON_HTTP_PORT>> >>,
      <<TRITON_GRPC_ENV_VAR, <<triton_ip_, TRITON_GRPC_PORT>> >> }
        \cup op_config_.variables

\* build_operator_cmd, lines 170-182: the --env entries of the command as
\* the set of name and value "address:port"; an entry given again by
\* op_config.variables replaces the earlier one
build_operator_cmd(op_config_, triton_ip_) ==
    LET triton_env ==
            IF op_config_.models
            THEN { <<TRITON_HTTP_ENV_VAR, <<triton_ip_, TRITON_HTTP_PORT>> >>,
                   <<LEGACY_TRITON_HTTP_ENV_VAR,
                     <<triton_ip_, TRITON_HTTP_PORT>> >>,
                   <<LEGACY_TRTIS_HTTP_ENV_VAR,
                     <<triton_ip_, TRITON_HTTP_PORT>> >>,
                   <<TRITON_GRPC_ENV_VAR, <<triton_ip_, TRITON_GRPC_PORT>> >> }
            ELSE {}
    IN  {e \in triton_env :
            ~\E v \in op_config_.variables : v[1] = e[1]}
        \cup op_config_.variables

\* run_pipeline: the address run_triton_model_repo yields, None (0) in the
\* other modes
triton_ip ==
    IF triton_mode = "MODEL_REPO" THEN inspect_ip_address(triton_container_id)
    ELSE 0

\* build_operator_cmd, then run_operator lines 307-324: the writer process
\* and the launcher p_start are started; p_start starts cmd_proc and checker
RunOperatorStart ==
    /\ pc = "run_operator"
    /\ docker_cmd' = build_operator_cmd(op_config, triton_ip)
    /\ writer' = IF metrics_output THEN [writer EXCEPT ![idx] = "running"]
                 ELSE writer
    /\ client' = [client EXCEPT ![idx] = "running"]
    /\ checker' = "alive"
    /\ pcL' = "poll"
    /\ pc' = "wait_id"
    /\ UNCHANGED <<sortVars, unitVars, cfgVars, triton_mode, exc, idx, op_config, prev_config, declared, exit, tmpdir,
                   svcVars, out_line, container, exitcode, wait_stdout, q,
                   raw_id, container_id, id_returned_event, sampleVars, write_que,
                   summary_key>>

\* run_operator line 326, the wait returned True: container.id is set and
\* the metrics paths are constructed
WaitIdReturned ==
    /\ pc = "wait_id"
    /\ id_returned_event
    /\ pc' = "wait_files"
    /\ UNCHANGED <<sortVars, unitVars, cfgVars, triton_mode, exc, idx, op_config, prev_config, docker_cmd, declared, exit, tmpdir,
                   svcVars, procVars, launchVars, sampleVars, outVars>>

\* a run_operator without the else: the timeout branch runs into the sampling
TimeoutFallsThrough == "wait_files"

\* run_operator lines 343-351: the else branch of the wait is followed by
\* the test of p_start.exitcode
TimeoutBranch == "check_exit"

\* run_operator lines 344-349, the wait returned False after
\* ID_WAITING_TIME_SECONDS: p_start and the writer are terminated
WaitIdTimeout ==
    /\ pc = "wait_id"
    /\ ~id_returned_event
    /\ timed_out' = TRUE
    /\ IF pcL # "exited"
       THEN pcL' = "exited" /\ exitcode' = SIGTERM /\ UNCHANGED wait_stdout
       ELSE UNCHANGED <<pcL, exitcode, wait_stdout>>
    /\ writer' = IF metrics_output THEN [writer EXCEPT ![idx] = "terminated"]
                 ELSE writer
    /\ pc' = TimeoutBranch
    /\ UNCHANGED <<sortVars, unitVars, cfgVars, triton_mode, exc, idx, op_config, prev_config, docker_cmd, declared, exit, tmpdir,
                   svcVars, procVars, q, raw_id, container_id, id_returned_event,
                   raw_metrics, metrics, callVars, write_que, summary_key>>

\* Container.metrics_path_exists: the accounting files of a container exist
\* while the container runs
metrics_path_exists(i) == container[i] = "running"

\* sample_operator lines 128-129: spin until the files exist
WaitFiles ==
    /\ pc = "wait_files"
    /\ pc' = IF metrics_path_exists(idx) THEN "sample_loop" ELSE "wait_files"
    /\ checks_true' = IF metrics_path_exists(idx) THEN checks_true + 1
                      ELSE checks_true
    /\ UNCHANGED <<sortVars, unitVars, cfgVars, triton_mode, exc, idx, op_config, prev_config, docker_cmd, declared, exit, tmpdir,
                   svcVars, procVars, launchVars, timed_out, raw_metrics,
                   metrics, sample_calls, loop_false, outVars>>

\* a sampler that puts only what is not None
PutNotNone(que, item) ==
    IF metrics_output /\ item # "None" THEN Append(que, item) ELSE que

\* que.put(item) when a queue was given
Put(que, item) == IF metrics_output THEN Append(que, item) ELSE que

\* utils.write_to_csv once the sentinel is on its queue: the loop will break
Fed(w) == IF w = "running" THEN "ending" ELSE w

\* sample_operator line 134 and lines 149-150: the loop test, and the
\* sentinel once the files are gone
SampleLoop ==
    /\ pc = "sample_loop"
    /\ IF metrics_path_exists(idx)
       THEN /\ pc' = "sample_read"
            /\ checks_true' = checks_true + 1
            /\ UNCHANGED <<write_que, writer, loop_false>>
       ELSE /\ pc' = "join"
            /\ loop_false' = loop_false + 1
            /\ write_que' = Put(write_que, "sentinel")
            /\ writer' = [writer EXCEPT ![idx] = Fed(@)]
            /\ UNCHANGED checks_true
    /\ UNCHANGED <<sortVars, unitVars, cfgVars, triton_mode, exc, idx, op_config, prev_config, docker_cmd, declared, exit, tmpdir,
                   svcVars, procVars, launchVars, timed_out, raw_metrics,
                   metrics, sample_calls, summary_key>>

\* a sampling loop that samples again without the test of line 134
SampleAgain == "sample_read"

\* sample_operator lines 134-147: after a sample, the sleep and the loop test
LoopTest == "sample_loop"

\* sample_operator lines 135-137 with Container.sample_metrics: a raw sample
\* (and from the second on a Metrics), a swallowed read error when the files
\* are gone, or another OSError that propagates
SampleRead ==
    /\ pc = "sample_read"
    /\ sample_calls' = sample_calls + 1
    /\ \/ /\ metrics_path_exists(idx)
          /\ raw_metrics < MaxSamples
          /\ raw_metrics' = raw_metrics + 1
          /\ metrics' = IF raw_metrics' >= 2 THEN metrics + 1 ELSE metrics
          /\ write_que' = Put(write_que,
                 IF raw_metrics' >= 2 THEN "Metrics" ELSE "None")
          /\ pc' = LoopTest
          /\ exc' = exc
       \/ /\ ~metrics_path_exists(idx)
          /\ write_que' = Put(write_que, "None")
          /\ pc' = LoopTest
          /\ UNCHANGED <<raw_metrics, metrics, exc>>
       \/ /\ metrics_path_exists(idx)
          /\ exc' = "OSError"
          /\ pc' = Handler
          /\ UNCHANGED <<raw_metrics, metrics, write_que>>
    /\ UNCHANGED <<sortVars, unitVars, cfgVars, triton_mode, idx, op_config, prev_config, docker_cmd, declared, exit, tmpdir,
                   svcVars, procVars, launchVars, timed_out, checks_true,
                   loop_false, writer,
                   summary_key>>

\* run_operator line 336: p_start.join()
JoinLauncher ==
    /\ pc = "join"
    /\ pcL = "exited"
    /\ pc' = "summary"
    /\ UNCHANGED <<sortVars, unitVars, cfgVars, triton_mode, exc, idx, op_config, prev_config, docker_cmd, declared, exit, tmpdir,
                   svcVars, procVars, launchVars, sampleVars, outVars>>

\* run_operator lines 339-342: print_operator_summary divides by
\* len(metrics); the summary is stored under the operator's name
Summary ==
    /\ pc = "summary"
    /\ IF metrics = 0
       THEN /\ exc' = "ZeroDivisionError"
            /\ pc' = Handler
            /\ UNCHANGED summary_key
       ELSE /\ summary_key' = "name"
            /\ pc' = "check_exit"
            /\ exc' = exc
    /\ UNCHANGED <<sortVars, unitVars, cfgVars, triton_mode, idx, op_config, prev_config, docker_cmd, declared, exit, tmpdir,
                   svcVars, procVars, launchVars, sampleVars, writer,
                   write_que>>

\* run_operator lines 351-359: the failure policy on p_start.exitcode
CheckExit ==
    /\ pc = "check_exit"
    /\ IF exitcode # 0
       THEN /\ summary_key' =
                   IF summary_key = "name" THEN "renamed" ELSE summary_key
            /\ IF continue_option = "CONT"
               THEN exit' = FALSE /\ pc' = "returned"
               ELSE IF continue_option = "STOP"
               THEN exit' = TRUE /\ pc' = "returned"
               ELSE exit' = exit /\ pc' = "prompt"
       ELSE /\ exit' = FALSE
            /\ pc' = "returned"
            /\ UNCHANGED summary_key
    /\ UNCHANGED <<sortVars, unitVars, cfgVars, triton_mode, exc, idx, op_config, prev_config, docker_cmd, declared, tmpdir, svcVars,
                   procVars, launchVars, sampleVars, writer, write_que>>

\* run_operator lines 360-363: prompt_yes_or_no
Prompt ==
    /\ pc = "prompt"
    /\ \E answer \in BOOLEAN : exit' = ~answer
    /\ pc' = "returned"
    /\ UNCHANGED <<sortVars, unitVars, cfgVars, triton_mode, exc, idx, op_config, prev_config, docker_cmd, declared, tmpdir, svcVars,
                   procVars, launchVars, sampleVars, outVars>>

\* run_pipeline_alone lines 438-440 (run_pipeline_with_services 519-521):
\* break when run_operator returned True, else the next pass of the loop.
\* The locals of run_operator are gone: of the operator that returned, the
\* run keeps the client if it still runs, the container, and the writer.
Returned ==
    /\ pc = "returned"
    /\ pc' = IF exit THEN Handler ELSE "loop"
    /\ exit' = FALSE
    /\ pcL' = "idle"
    /\ exitcode' = 0
    /\ wait_stdout' = "none"
    /\ q' = "empty"
    /\ raw_id' = "none"
    /\ container_id' = 0
    /\ id_returned_event' = FALSE
    /\ timed_out' = FALSE
    /\ raw_metrics' = 0
    /\ metrics' = 0
    /\ sample_calls' = 0
    /\ checks_true' = 0
    /\ loop_false' = 0
    /\ out_line' = "none"
    /\ checker' = "none"
    /\ write_que' = <<>>
    /\ summary_key' = "absent"
    /\ UNCHANGED <<sortVars, unitVars, cfgVars, triton_mode, exc, idx, op_config, prev_config, docker_cmd, declared, tmpdir, svcVars,
                   client, container, writer>>

\* run_pipeline_with_services lines 522-524
FinallyServices ==
    /\ pc = "finally_services"
    /\ svc_running' = clean_up_containers(running_services, svc_running)
    /\ running_services' = {}
    /\ pc' = "join_writers"
    /\ UNCHANGED <<sortVars, unitVars, cfgVars, triton_mode, exc, idx, op_config, prev_config, docker_cmd, declared, exit, tmpdir,
                   svc_todo, svc_count, triton_container_id, procVars,
                   launchVars, sampleVars, outVars>>

\* get_output_writers lines 411-414: writer.join() for every writer
JoinWriters ==
    /\ pc = "join_writers"
    /\ \A i \in OpIds : writer[i] # "running"
    /\ pc' = "rm_tmp"
    /\ UNCHANGED <<sortVars, unitVars, cfgVars, triton_mode, exc, idx, op_config, prev_config, docker_cmd, declared, exit, tmpdir,
                   svcVars, procVars, launchVars, sampleVars, outVars>>

\* the exit of `with TemporaryDirectory()`
RemoveTempDir ==
    /\ pc = "rm_tmp"
    /\ tmpdir' = "removed"
    /\ pc' = IF triton_mode = "MODEL_REPO" THEN "repo_finally" ELSE "done"
    /\ UNCHANGED <<sortVars, unitVars, cfgVars, triton_mode, exc, idx, op_config, prev_config, docker_cmd, declared, exit, svcVars,
                   procVars, launchVars, sampleVars, outVars>>

\* run_triton_model_repo lines 216-219: `docker kill triton_container_id`,
\* a name that is unbound unless start_triton returned
RepoFinally ==
    /\ pc = "repo_finally"
    /\ IF triton_container_id = 0
       THEN exc' = "UnboundLocalError" /\ svc_running' = svc_running
       ELSE exc' = exc /\ svc_running' = svc_running \ {triton_container_id}
    /\ pc' = "done"
    /\ UNCHANGED <<sortVars, unitVars, cfgVars, triton_mode, idx, op_config, prev_config, docker_cmd, declared, exit, tmpdir,
                   svc_todo, running_services, svc_count,
                   triton_container_id, procVars, launchVars, sampleVars,
                   outVars>>

(***************************************************************************)
(* The launcher p_start (start_operator) of the operator idx.              *)
(***************************************************************************)

\* cmd_proc.returncode once poll() found that cmd_proc has ended: what
\* `docker run -d` can end with.  It ends with 0 only after it printed the
\* identifier of the container it started, and something may still fail then.
returncodes == IF out_line = "good" THEN {0, 1} ELSE {1}

\* start_operator lines 74 and 88-94, 96-98, 112-113: cmd_proc.poll(); when
\* cmd_proc has ended the loop's else clause runs
LauncherPoll ==
    /\ pcL = "poll"
    /\ IF client[idx] = "running"
       THEN pcL' = "get" /\ UNCHANGED <<checker, exitcode, wait_stdout>>
       ELSE /\ checker' = "dead"
            /\ \E returncode \in returncodes :
                   exitcode' = IF returncode # 0 THEN 1 ELSE 0
            /\ UNCHANGED wait_stdout
            /\ pcL' = "exited"
    /\ UNCHANGED <<sortVars, unitVars, cfgVars, mainVars, svcVars, client, out_line,
                   container, q, raw_id, container_id, id_returned_event,
                   sampleVars, outVars>>

\* a start_operator that sets the event on a line of length 65 and leaves
\* the assignment of container_id.value for later
LauncherGetEventFirst ==
    /\ pcL = "get"
    /\ IF q = "empty"
       THEN pcL' = "poll" /\ UNCHANGED <<q, raw_id, exitcode, wait_stdout, checker>>
       ELSE /\ raw_id' = q
            /\ q' = "empty"
            /\ IF raw_id' = "good"
               THEN /\ pcL' = "set_event"
                    /\ UNCHANGED <<exitcode, wait_stdout, checker>>
               ELSE /\ exitcode' = 1
                    /\ UNCHANGED wait_stdout
                    /\ checker' = "dead"
                    /\ pcL' = "exited"
    /\ UNCHANGED <<sortVars, unitVars, cfgVars, mainVars, svcVars, client, out_line,
                   container, container_id, id_returned_event, sampleVars,
                   outVars>>

\* start_operator lines 75-87: q.get_nowait() and the length test; sys.exit
\* ends the process, which ends its daemonic child checker
LauncherGet ==
    /\ pcL = "get"
    /\ IF q = "empty"
       THEN pcL' = "poll" /\ UNCHANGED <<q, raw_id, container_id, exitcode, wait_stdout, checker>>
       ELSE /\ raw_id' = q
            /\ q' = "empty"
            /\ IF raw_id' = "good"
               THEN /\ container_id' = idx
                    /\ pcL' = "set_event"
                    /\ UNCHANGED <<exitcode, wait_stdout, checker>>
               ELSE /\ exitcode' = 1
                    /\ UNCHANGED wait_stdout
                    /\ checker' = "dead"
                    /\ pcL' = "exited"
                    /\ UNCHANGED container_id
    /\ UNCHANGED <<sortVars, unitVars, cfgVars, mainVars, svcVars, client, out_line,
                   container, id_returned_event, sampleVars,
                   outVars>>

\* start_operator lines 84-85 and 96-99: the event is set, the loop is left,
\* checker is terminated, and cmd_proc.returncode is still None
LauncherSetEvent ==
    /\ pcL = "set_event"
    /\ id_returned_event' = TRUE
    /\ checker' = "dead"
    /\ pcL' = "docker_wait"
    /\ UNCHANGED <<sortVars, unitVars, cfgVars, mainVars, svcVars, client, out_line,
                   container, exitcode, wait_stdout, q, raw_id, container_id,
                   sampleVars, outVars>>

\* a start_operator that ends with 1 on every status other than "0"
WaitExitCodeAlwaysOne(returned_str) == IF returned_str = "0" THEN 0 ELSE 1

\* start_operator lines 103-111: the exit code from what `docker wait` printed
WaitExitCode(returned_str) ==
    IF returned_str = "0" THEN 0
    ELSE IF returned_str = "125" THEN NonZeroStatus
    ELSE 1

\* start_operator line 101: `docker wait` returns once the container ended
LauncherDockerWait ==
    /\ pcL = "docker_wait"
    /\ container[idx] # "running"
    /\ wait_stdout' \in {"0", "125", "error"}
    /\ exitcode' = WaitExitCode(wait_stdout')
    /\ pcL' = "exited"
    /\ UNCHANGED <<sortVars, unitVars, cfgVars, mainVars, svcVars, procVars, q,
                   raw_id, container_id, id_returned_event, sampleVars, outVars>>

(***************************************************************************)
(* The processes outside the tool's control flow.                          *)
(***************************************************************************)

\* operator i is the one whose launcher, drain task and queue exist
Launching(i) == i = idx /\ pcL # "idle"

\* _enqueue_output: the lines of cmd_proc's stdout are put on the queue, and
\* readline returns b'' once cmd_proc has ended
CheckerRun ==
    /\ checker = "alive"
    /\ client[idx] = "exited"
    /\ q' = IF pcL \in {"poll", "get"} /\ out_line # "none" THEN out_line
            ELSE q
    /\ checker' = "dead"
    /\ UNCHANGED <<sortVars, unitVars, cfgVars, mainVars, svcVars, client, out_line,
                   container, pcL, exitcode, wait_stdout, raw_id, container_id,
                   id_returned_event, sampleVars, outVars>>

\* `docker run -d` starts the container, prints its identifier and ends
ClientStartContainer(i) ==
    /\ client[i] = "running"
    /\ client' = [client EXCEPT ![i] = "exited"]
    /\ out_line' = IF Launching(i) THEN "good" ELSE out_line
    /\ container' = [container EXCEPT ![i] = "running"]
    /\ UNCHANGED <<sortVars, unitVars, cfgVars, mainVars, svcVars, checker,
                   launchVars, sampleVars, outVars>>

\* `docker run -d` prints a line that is not an identifier and ends
ClientPrintOther(i) ==
    /\ client[i] = "running"
    /\ Launching(i)
    /\ client' = [client EXCEPT ![i] = "exited"]
    /\ out_line' = "bad"
    /\ UNCHANGED <<sortVars, unitVars, cfgVars, mainVars, svcVars, checker, container,
                   launchVars, sampleVars, outVars>>

\* `docker run -d` fails: nothing on stdout, a non-zero return code
ClientFail(i) ==
    /\ client[i] = "running"
    /\ client' = [client EXCEPT ![i] = "exited"]
    /\ UNCHANGED <<sortVars, unitVars, cfgVars, mainVars, svcVars, out_line, checker,
                   container, launchVars, sampleVars, outVars>>

\* the operator's container ends (and --rm removes it)
ContainerExit(i) ==
    /\ container[i] = "running"
    /\ container' = [container EXCEPT ![i] = "exited"]
    /\ UNCHANGED <<sortVars, unitVars, cfgVars, mainVars, svcVars, client, out_line,
                   checker, launchVars, sampleVars, outVars>>

Next ==
    \/ RunPipeline
    \/ CheckModelsDirectory
    \/ StartTritonRun
    \/ StartTritonProbe
    \/ MakeTempDir
    \/ LoopNext
    \/ StartPipelineServices
    \/ RunOperatorStart
    \/ WaitIdReturned
    \/ WaitIdTimeout
    \/ WaitFiles
    \/ SampleLoop
    \/ SampleRead
    \/ JoinLauncher
    \/ Summary
    \/ CheckExit
    \/ Prompt
    \/ Returned
    \/ FinallyServices
    \/ JoinWriters
    \/ RemoveTempDir
    \/ RepoFinally
    \/ LauncherPoll
    \/ LauncherGet
    \/ LauncherSetEvent
    \/ LauncherDockerWait
    \/ CheckerRun
    \/ \E i \in OpIds :
          \/ ClientStartContainer(i)
          \/ ClientPrintOther(i)
          \/ ClientFail(i)
          \/ ContainerExit(i)

Spec == Init /\ [][Next]_vars

\* the steps of the orchestration flow, the main process
FlowStep ==
    \/ RunPipeline
    \/ CheckModelsDirectory
    \/ StartTritonRun
    \/ StartTritonProbe
    \/ MakeTempDir
    \/ LoopNext
    \/ StartPipelineServices
    \/ RunOperatorStart
    \/ WaitIdReturned
    \/ WaitIdTimeout
    \/ WaitFiles
    \/ SampleLoop
    \/ SampleRead
    \/ JoinLauncher
    \/ Summary
    \/ CheckExit
    \/ Prompt
    \/ Returned
    \/ FinallyServices
    \/ JoinWriters
    \/ RemoveTempDir
    \/ RepoFinally

\* the steps of p_start, the process that runs start_operator
LauncherStep ==
    LauncherPoll \/ LauncherGet \/ LauncherSetEvent \/ LauncherDockerWait

\* the steps of the docker clients
ClientStep ==
    \E i \in OpIds :
        ClientStartContainer(i) \/ ClientPrintOther(i) \/ ClientFail(i)

\* the operators' containers end
ContainerStep == \E i \in OpIds : ContainerExit(i)

\* every process that can take a step takes one eventually: the processes
\* run in parallel under the scheduler of the host
FairSpec ==
    /\ Spec
    /\ WF_vars(FlowStep)
    /\ WF_vars(LauncherStep)
    /\ WF_vars(CheckerRun)
    /\ WF_vars(ClientStep)
    /\ WF_vars(ContainerStep)

(***************************************************************************)
(* The sorter alone: main.py sorts pipeline_config.operators.              *)
(***************************************************************************)

SortInit ==
    /\ \E n \in 1..MaxOps : operators \in Pipelines(n)
    /\ execution_order = NotRun
    /\ resorted = NotRun
    /\ local_dag = NoDag
    /\ uses_models = FALSE
    /\ uses_services = FALSE
    /\ continue_option = "NONE"
    /\ metrics_output = FALSE
    /\ RunIdle
    /\ UnitIdle

\* main.py: execution_order = topo_sort_pipeline(pipeline_config.operators)
SortPipeline ==
    /\ execution_order = NotRun
    /\ execution_order' = topo_sort_pipeline(operators)
    /\ local_dag' = sorter_dag(operators)
    /\ UNCHANGED <<operators, resorted, runVars, unitVars>>

\* the sorted list handed to the sorter again
SortAgain ==
    /\ execution_order.status = "ok"
    /\ resorted = NotRun
    /\ resorted' = topo_sort_pipeline(execution_order.order)
    /\ local_dag' = sorter_dag(execution_order.order)
    /\ UNCHANGED <<operators, execution_order, runVars, unitVars>>

SortNext == SortPipeline \/ SortAgain

SortSpec == SortInit /\ [][SortNext]_vars

\* the pipelines of one operator handed to the sorter
SingleInit ==
    /\ operators \in Pipelines(1)
    /\ execution_order = NotRun
    /\ resorted = NotRun
    /\ local_dag = NoDag
    /\ uses_models = FALSE
    /\ uses_services = FALSE
    /\ continue_option = "NONE"
    /\ metrics_output = FALSE
    /\ RunIdle
    /\ UnitIdle

SingleSpec == SingleInit /\ [][SortNext]_vars

(***************************************************************************)
(* Part III.  container.py and print_operator_summary on the values they   *)
(* compute.  A Python float is the exact rational [n, d] in lowest terms,  *)
(* d > 0; the readings are chosen so that every product stays in 32 bits.  *)
(***************************************************************************)

\* sample_metrics is called until MaxSamples Metrics were derived
MaxReads == MaxSamples + 1

NS_PER_S == 1000000000

B_MB_FACTOR == 1000000

OnlineCpus == {1, 4}

Abs(i) == IF i < 0 THEN -i ELSE i

RECURSIVE Gcd(_, _)
Gcd(a, b) == IF b = 0 THEN a ELSE Gcd(b, a % b)

Rat(n, d) ==
    LET g == Gcd(Abs(n), Abs(d))
        s == IF d < 0 THEN -1 ELSE 1
    IN  [n |-> s * (n \div g), d |-> s * (d \div g)]

Float(i) == [n |-> i, d |-> 1]

RatAdd(x, y) ==
    LET g == Gcd(x.d, y.d)
    IN  Rat(x.n * (y.d \div g) + y.n * (x.d \div g), (x.d \div g) * y.d)

RatNeg(x) == [n |-> -x.n, d |-> x.d]

RatSub(x, y) == RatAdd(x, RatNeg(y))

RatMul(x, y) ==
    LET g1 == Gcd(Abs(x.n), y.d)
        g2 == Gcd(Abs(y.n), x.d)
    IN  Rat((x.n \div g1) * (y.n \div g2), (x.d \div g2) * (y.d \div g1))

\* x / y for y # 0
RatDiv(x, y) == RatMul(x, Rat(y.d, y.n))

RatLess(x, y) ==
    LET g == Gcd(x.d, y.d)
    IN  x.n * (y.d \div g) < y.n * (x.d \div g)

RatLeq(x, y) == ~RatLess(y, x)

\* math.floor and math.ceil
Floor(x) == x.n \div x.d

Ceil(x) == -((-x.n) \div x.d)

\* round(x, 3): to the nearest multiple of 1/1000, a tie to the even one
round3(x) ==
    LET y == RatMul(x, Float(1000))
        f == Floor(y)
        twice == RatMul(RatSub(y, Float(f)), Float(2))
        up == \/ RatLess(Float(1), twice)
              \/ twice = Float(1) /\ f % 2 = 1
    IN  Rat(IF up THEN f + 1 ELSE f, 1000)

RECURSIVE sum(_)
sum(data) ==
    IF data = <<>> THEN Float(0) ELSE RatAdd(data[1], sum(Tail(data)))

RECURSIVE max(_)
max(data) ==
    IF Len(data) = 1 THEN data[1]
    ELSE LET m == max(Tail(data))
         IN  IF RatLess(data[1], m) THEN m ELSE data[1]

\* utils.py
round_up_to_multiple(x, base) == Ceil(RatDiv(x, Float(base))) * base

convert_percent_to_cores(x) == Ceil(RatDiv(x, Float(100)))

\* the readings _read_raw_metrics can return: cpuacct.usage in ns,
\* cpuacct.usage_percpu, the host's cpu seconds, memory.usage_in_bytes
CpuReadings == {800000, 150800600}

PerCpuReadings == {"per_cpu_a", "per_cpu_b"}

SysCpuReadings == {Float(14000000), Rat(70000003, 5)}

MemoryReadings == {6500000, 156000400}

RawMetrics(timestamp, cpu, per_cpu, sys_cpu, memory) ==
    [timestamp |-> timestamp, cpu |-> cpu, per_cpu |-> per_cpu,
     sys_cpu |-> sys_cpu, memory |-> memory]

Metrics(timestamp, cpu_percent, memory) ==
    [timestamp |-> timestamp, cpu_percent |-> cpu_percent, memory |-> memory]

None == [kind |-> "None"]

\* _process_raw_data testing the host delta only
process_raw_data_host_only(prev, cur) ==
    LET ts_avg == RatDiv(Float(prev.timestamp + cur.timestamp), Float(2))
        cpu_delta == RatDiv(Float(cur.cpu - prev.cpu), Float(NS_PER_S))
        sys_cpu_delta == RatSub(cur.sys_cpu, prev.sys_cpu)
        cpu_percent ==
            IF RatLess(Float(0), sys_cpu_delta)
            THEN RatMul(RatMul(RatDiv(cpu_delta, sys_cpu_delta),
                               Float(ONLINE_CPUS)), Float(100))
            ELSE Float(0)
        memory_avg == RatDiv(RatDiv(Float(prev.memory + cur.memory), Float(2)),
                             Float(B_MB_FACTOR))
    IN  Metrics(ts_avg, cpu_percent, memory_avg)

\* _process_raw_data reporting the memory of the current sample
process_raw_data_cur_memory(prev, cur) ==
    LET ts_avg == RatDiv(Float(prev.timestamp + cur.timestamp), Float(2))
        cpu_delta == RatDiv(Float(cur.cpu - prev.cpu), Float(NS_PER_S))
        sys_cpu_delta == RatSub(cur.sys_cpu, prev.sys_cpu)
        cpu_percent ==
            IF RatLess(Float(0), cpu_delta) /\ RatLess(Float(0), sys_cpu_delta)
            THEN RatMul(RatMul(RatDiv(cpu_delta, sys_cpu_delta),
                               Float(ONLINE_CPUS)), Float(100))
            ELSE Float(0)
        memory_cur == RatDiv(Float(cur.memory), Float(B_MB_FACTOR))
    IN  Metrics(ts_avg, cpu_percent, memory_cur)

\* Container._process_raw_data
process_raw_data(prev, cur) ==
    LET ts_avg == RatDiv(Float(prev.timestamp + cur.timestamp), Float(2))
        cpu_delta == RatDiv(Float(cur.cpu - prev.cpu), Float(NS_PER_S))
        sys_cpu_delta == RatSub(cur.sys_cpu, prev.sys_cpu)
        cpu_percent ==
            IF RatLess(Float(0), cpu_delta) /\ RatLess(Float(0), sys_cpu_delta)
            THEN RatMul(RatMul(RatDiv(cpu_delta, sys_cpu_delta),
                               Float(ONLINE_CPUS)), Float(100))
            ELSE Float(0)
        memory_avg == RatDiv(RatDiv(Float(prev.memory + cur.memory), Float(2)),
                             Float(B_MB_FACTOR))
    IN  Metrics(ts_avg, cpu_percent, memory_avg)

\* sample_metrics deriving from the first sample instead of the previous one
deriveFromFirst(raws, derived, raw) ==
    LET appended == Append(raws, raw)
        last == Len(appended)
    IN  IF last >= 2
        THEN LET metric == process_raw_data(appended[1], appended[last])
             IN  [raw_metrics |-> appended,
                  metrics |-> Append(derived, metric),
                  value |-> metric]
        ELSE [raw_metrics |-> appended, metrics |-> derived, value |-> None]

\* sample_metrics after _read_raw_metrics returned raw: the two lists and
\* the value returned
derive(raws, derived, raw) ==
    LET appended == Append(raws, raw)
        last == Len(appended)
    IN  IF last >= 2
        THEN LET metric == process_raw_data(appended[last - 1], appended[last])
             IN  [raw_metrics |-> appended,
                  metrics |-> Append(derived, metric),
                  value |-> metric]
        ELSE [raw_metrics |-> appended, metrics |-> derived, value |-> None]

\* the clock _read_raw_metrics reads: one tick per call
utcnow == Len(container_raw_metrics) + read_errors + 1

ENOENT == 2

EACCES == 13

ENODEV == 19

\* what the reads of _read_raw_metrics can fail with
ReadErrnos == {ENOENT, EACCES, ENODEV}

\* the three entries of metric_paths: cpuacct.usage, cpuacct.usage_percpu,
\* memory.usage_in_bytes
MetricFiles == 1..3

\* construct_metrics_path, lines 72-75: the paths built from the identifier
metric_paths_of(id) == [file \in MetricFiles |-> <<id, file>>]

\* run_operator line 328: container.id = container_id.value
SetContainerId ==
    /\ operator_summary = NoValue
    /\ container_self_id = ""
    /\ container_self_id' = "id"
    /\ UNCHANGED <<sortVars, runVars, dagVars, probeVars, ONLINE_CPUS, csvVars,
                   container_raw_metrics, container_metrics, read_errors,
                   sampled, operator_summary, container_metric_paths,
                   read_errno, raised>>

\* a construct_metrics_path that builds the paths from an empty identifier
construct_without_test(id) == TRUE

\* construct_metrics_path line 71: `if self.id`
id_is_set(id) == id # ""

\* Container.construct_metrics_path
ConstructMetricsPath ==
    /\ operator_summary = NoValue
    /\ container_metric_paths = <<>>
    /\ IF id_is_set(container_self_id)
       THEN /\ container_metric_paths' = metric_paths_of(container_self_id)
            /\ raised' = "none"
       ELSE /\ raised' = "RuntimeError"
            /\ UNCHANGED container_metric_paths
    /\ UNCHANGED <<sortVars, runVars, dagVars, probeVars, ONLINE_CPUS, csvVars,
                   container_raw_metrics, container_metrics, read_errors,
                   sampled, operator_summary, container_self_id, read_errno>>

\* sample_metrics lines 125 and 143-144: the paths were not constructed
SampleMetricsNoPaths ==
    /\ operator_summary = NoValue
    /\ container_metric_paths = <<>>
    /\ raised' = "RuntimeError"
    /\ UNCHANGED <<sortVars, runVars, dagVars, probeVars, ONLINE_CPUS, csvVars,
                   container_raw_metrics, container_metrics, read_errors,
                   sampled, operator_summary, container_self_id,
                   container_metric_paths, read_errno>>

\* sample_metrics, the read succeeds
SampleMetrics ==
    /\ operator_summary = NoValue
    /\ container_metric_paths # <<>>
    /\ Len(container_raw_metrics) + read_errors < MaxReads
    /\ \E cpu \in CpuReadings, per_cpu \in PerCpuReadings,
          sys_cpu \in SysCpuReadings, memory \in MemoryReadings :
          LET r == derive(container_raw_metrics, container_metrics,
                          RawMetrics(utcnow, cpu, per_cpu, sys_cpu, memory))
          IN  /\ container_raw_metrics' = r.raw_metrics
              /\ container_metrics' = r.metrics
              /\ sampled' = r.value
    /\ read_errno' = 0
    /\ raised' = "none"
    /\ UNCHANGED <<sortVars, runVars, dagVars, probeVars, ONLINE_CPUS, csvVars, read_errors,
                   operator_summary, container_self_id,
                   container_metric_paths>>

\* a sample_metrics whose handler returns on every OSError
swallows_every_OSError(errno) == TRUE

\* sample_metrics lines 136-142: FileNotFoundError (the OSError of ENOENT)
\* and the OSError of errno 19 end in `return`, any other is raised again
swallows(errno) == errno = ENOENT \/ errno = 19

\* sample_metrics, the read of one of the three files raises FileNotFoundError
\* or OSError errno 19: the reads before it are dropped with the call
SampleMetricsSwallowed ==
    /\ operator_summary = NoValue
    /\ container_metric_paths # <<>>
    /\ Len(container_raw_metrics) + read_errors < MaxReads
    /\ \E file \in MetricFiles, errno \in ReadErrnos :
          /\ swallows(errno)
          /\ read_errno' = errno
    /\ read_errors' = read_errors + 1
    /\ sampled' = None
    /\ raised' = "none"
    /\ UNCHANGED <<sortVars, runVars, dagVars, probeVars, ONLINE_CPUS, csvVars, container_raw_metrics,
                   container_metrics, operator_summary, container_self_id,
                   container_metric_paths>>

\* sample_metrics, the read of one of the three files raises another OSError,
\* which line 142 raises to the caller: the call returns no value
SampleMetricsRaises ==
    /\ operator_summary = NoValue
    /\ container_metric_paths # <<>>
    /\ Len(container_raw_metrics) + read_errors < MaxReads
    /\ \E file \in MetricFiles, errno \in ReadErrnos :
          /\ ~swallows(errno)
          /\ read_errno' = errno
    /\ raised' = "OSError"
    /\ UNCHANGED <<sortVars, runVars, dagVars, probeVars, ONLINE_CPUS, csvVars,
                   container_raw_metrics, container_metrics, read_errors,
                   sampled, operator_summary, container_self_id,
                   container_metric_paths>>

\* pipeline_utils.py: the numbers of the two rows print_operator_summary
\* returns
print_operator_summary(metrics_list) ==
    IF metrics_list = <<>> THEN [kind |-> "ZeroDivisionError"]
    ELSE
    LET cpu_data == [i \in DOMAIN metrics_list |-> metrics_list[i].cpu_percent]
        cpu_avg == round3(RatDiv(sum(cpu_data), Float(Len(metrics_list))))
        cpu_max == round3(max(cpu_data))
        memory_data == [i \in DOMAIN metrics_list |-> metrics_list[i].memory]
        memory_avg == round3(RatDiv(sum(memory_data),
                                    Float(Len(metrics_list))))
        memory_max == round3(max(memory_data))
        recommended_cpu == convert_percent_to_cores(cpu_max)
        recommended_memory ==
            round_up_to_multiple(RatAdd(memory_max, Float(100)), 256)
    IN  [kind |-> "data",
         cpu_avg |-> cpu_avg, cpu_max |-> cpu_max,
         recommended_cpu |-> recommended_cpu,
         memory_avg |-> memory_avg, memory_max |-> memory_max,
         recommended_memory |-> recommended_memory]

\* run_operator: print_operator_summary(container.metrics, ...)
PrintOperatorSummary ==
    /\ operator_summary = NoValue
    /\ operator_summary' = print_operator_summary(container_metrics)
    /\ UNCHANGED <<sortVars, runVars, dagVars, probeVars, ONLINE_CPUS, lifeVars, csvVars, container_raw_metrics,
                   container_metrics, read_errors, sampled>>

MetricsInit ==
    /\ operators = <<>>
    /\ execution_order = NotRun
    /\ resorted = NotRun
    /\ local_dag = NoDag
    /\ uses_models = FALSE
    /\ uses_services = FALSE
    /\ continue_option = "NONE"
    /\ metrics_output = FALSE
    /\ RunIdle
    /\ ONLINE_CPUS \in OnlineCpus
    /\ container_raw_metrics = <<>>
    /\ container_metrics = <<>>
    /\ read_errors = 0
    /\ sampled = NoValue
    /\ operator_summary = NoValue
    /\ graph = PipelineDAG
    /\ sequence = NotRun
    /\ ProbeIdle
    /\ ContainerInit

MetricsNext ==
    \/ SetContainerId
    \/ ConstructMetricsPath
    \/ SampleMetricsNoPaths
    \/ SampleMetrics
    \/ SampleMetricsSwallowed
    \/ SampleMetricsRaises
    \/ PrintOperatorSummary

MetricsSpec == MetricsInit /\ [][MetricsNext]_vars

(***************************************************************************)
(* Part IV.  decide_method_to_run_triton on the lists of operators.        *)
(***************************************************************************)

\* the operators as the scan reads them: op.models and op.services, each
\* empty or not, in every combination
ScannedConfigs ==
    [models : BOOLEAN, services : {<<>>, <<TritonA>>}, variables : {{}}]

RECURSIVE ScanOperators(_, _, _)
\* the for loop of decide_method_to_run_triton, then the decision
ScanOperators(op_configs, model_repo, services) ==
    IF op_configs = <<>> THEN DecideMode(model_repo, services)
    ELSE LET op == Head(op_configs)
         IN  ScanOperators(Tail(op_configs),
                           IF op.models THEN TRUE ELSE model_repo,
                           IF op.services # <<>> THEN TRUE ELSE services)

decide_method_to_run_triton(op_configs) ==
    ScanOperators(op_configs, FALSE, FALSE)

DecideInit ==
    /\ operators = <<>>
    /\ execution_order \in
          [status : {"ok"}, order : SeqsUpTo(ScannedConfigs, NumOps + 1)]
    /\ resorted = NotRun
    /\ local_dag = NoDag
    /\ uses_models = FALSE
    /\ uses_services = FALSE
    /\ continue_option = "NONE"
    /\ metrics_output = FALSE
    /\ RunIdle
    /\ UnitIdle

\* run_pipeline line 380: decide_method_to_run_triton(execution_order)
DecideMethod ==
    /\ triton_mode = "unset"
    /\ triton_mode' = decide_method_to_run_triton(execution_order.order)
    /\ UNCHANGED <<sortVars, unitVars, cfgVars, pc, exc, idx, op_config,
                   prev_config, docker_cmd, declared, exit, tmpdir, svcVars, procVars,
                   launchVars, sampleVars, outVars>>

DecideNext == DecideMethod

DecideSpec == DecideInit /\ [][DecideNext]_vars

(***************************************************************************)
(* Part V.  PipelineDAG built edge by edge, as tests/test_topology_sort.py *)
(* builds it, and sorted.                                                  *)
(***************************************************************************)

\* the nodes of the graphs that are enumerated
GraphNodes == 0..3

\* test_topo_sort: the six calls of add_input_edge
test_topo_sort ==
    << <<2, 5>>, <<0, 5>>, <<0, 4>>, <<1, 4>>, <<3, 2>>, <<1, 3>> >>

RECURSIVE AddEdges(_, _)
\* graph.add_input_edge(node, input_node) for every call of the list, in order
AddEdges(dag, calls) ==
    IF calls = <<>> THEN dag
    ELSE AddEdges(add_input_edge(dag, Head(calls)[1], Head(calls)[2]),
                  Tail(calls))

DagInit ==
    /\ operators = <<>>
    /\ execution_order = NotRun
    /\ resorted = NotRun
    /\ local_dag = NoDag
    /\ uses_models = FALSE
    /\ uses_services = FALSE
    /\ continue_option = "NONE"
    /\ metrics_output = FALSE
    /\ RunIdle
    /\ ONLINE_CPUS = 1
    /\ container_raw_metrics = <<>>
    /\ container_metrics = <<>>
    /\ read_errors = 0
    /\ sampled = NoValue
    /\ operator_summary = NoValue
    /\ graph \in {PipelineDAG, AddEdges(PipelineDAG, test_topo_sort)}
    /\ sequence = NotRun
    /\ ProbeIdle
    /\ ContainerInit

RECURSIVE EdgeCount(_, _)
\* the number of edges of dag: the in-degrees of the registered nodes
EdgeCount(dag, keys) ==
    IF keys = <<>> THEN 0
    ELSE dag.deg[Head(keys)] + EdgeCount(dag, Tail(keys))

\* graph.add_input_edge(node, input_node)
AddInputEdge ==
    /\ sequence = NotRun
    /\ EdgeCount(graph, graph.deg_keys) < MaxEdges
    /\ \E node \in GraphNodes, input_node \in GraphNodes :
          graph' = add_input_edge(graph, node, input_node)
    /\ UNCHANGED <<sortVars, runVars, probeVars, sequence, ONLINE_CPUS, lifeVars, csvVars,
                   container_raw_metrics, container_metrics, read_errors,
                   sampled, operator_summary>>

\* graph.topological_sort()
TopologicalSort ==
    /\ sequence = NotRun
    /\ sequence' = topological_sort(graph)
    /\ UNCHANGED <<sortVars, runVars, probeVars, graph, ONLINE_CPUS, lifeVars, csvVars, container_raw_metrics,
                   container_metrics, read_errors, sampled, operator_summary>>

DagNext == AddInputEdge \/ TopologicalSort

DagSpec == DagInit /\ [][DagNext]_vars

(***************************************************************************)
(* Part VI.  check_triton_status: the readiness probe of the server.       *)
(***************************************************************************)

\* passes of the while loop that fit into TRITON_READY_TIMEOUT_SECONDS
MaxAttempts == 3

ModelNames == {"model1", "model2"}

\* what requests.get does: a response with its status_code, or the
\* exception requests.ConnectionError
Outcomes == {"200", "400", "ConnectionError"}

Get(url, outcome) == [url |-> url, outcome |-> outcome]

\* the call of check_triton_status, after time.sleep(TRITON_WAIT_TIME_SECONDS)
ProbeInit ==
    /\ operators = <<>>
    /\ execution_order = NotRun
    /\ resorted = NotRun
    /\ local_dag = NoDag
    /\ uses_models = FALSE
    /\ uses_services = FALSE
    /\ continue_option = "NONE"
    /\ metrics_output = FALSE
    /\ RunIdle
    /\ ONLINE_CPUS = 1
    /\ container_raw_metrics = <<>>
    /\ container_metrics = <<>>
    /\ read_errors = 0
    /\ sampled = NoValue
    /\ operator_summary = NoValue
    /\ graph = PipelineDAG
    /\ sequence = NotRun
    /\ status_pc = "window"
    /\ attempts = 0
    /\ triton_models_names \in SeqsUpTo(ModelNames, 2)
    /\ verified = 0
    /\ requests_get = <<>>
    /\ ContainerInit

\* a while loop that tries again after every answer but 200
RetryUntilOk(outcome) == IF outcome = "200" THEN "models" ELSE "window"

\* where a pass of the while loop leaves, by the outcome of requests.get:
\* break, sys.exit, or continue
AfterServerGet(outcome) ==
    IF outcome = "200" THEN "models"
    ELSE IF outcome = "ConnectionError" THEN "window"
    ELSE "SystemExit"

\* one pass of the while loop, lines 138-146: the window has not elapsed
ServerGet ==
    /\ status_pc = "window"
    /\ attempts < MaxAttempts
    /\ attempts' = attempts + 1
    /\ \E outcome \in Outcomes :
          /\ requests_get' = Append(requests_get, Get("server", outcome))
          /\ status_pc' = AfterServerGet(outcome)
    /\ UNCHANGED <<sortVars, runVars, ONLINE_CPUS, lifeVars, csvVars, container_raw_metrics,
                   container_metrics, read_errors, sampled, operator_summary,
                   dagVars, triton_models_names, verified>>

\* the while condition is false after a pass that ended in continue: the
\* else clause raises TimeoutError, lines 147-148
WindowElapsed ==
    /\ status_pc = "window"
    /\ attempts >= 1
    /\ status_pc' = "TimeoutError"
    /\ UNCHANGED <<sortVars, runVars, ONLINE_CPUS, lifeVars, csvVars, container_raw_metrics,
                   container_metrics, read_errors, sampled, operator_summary,
                   dagVars, attempts, triton_models_names, verified,
                   requests_get>>

\* one pass of the for loop, lines 151-155; an exception of requests.get is
\* not caught here
ModelGet ==
    /\ status_pc = "models"
    /\ verified < Len(triton_models_names)
    /\ \E outcome \in Outcomes :
          /\ requests_get' =
                Append(requests_get,
                       Get(triton_models_names[verified + 1], outcome))
          /\ IF outcome = "200"
             THEN verified' = verified + 1 /\ status_pc' = status_pc
             ELSE /\ verified' = verified
                  /\ status_pc' = IF outcome = "ConnectionError"
                                  THEN "ConnectionError" ELSE "SystemExit"
    /\ UNCHANGED <<sortVars, runVars, ONLINE_CPUS, lifeVars, csvVars, container_raw_metrics,
                   container_metrics, read_errors, sampled, operator_summary,
                   dagVars, attempts, triton_models_names>>

\* the for loop is over: check_triton_status returns
ProbeReturn ==
    /\ status_pc = "models"
    /\ verified = Len(triton_models_names)
    /\ status_pc' = "returned"
    /\ UNCHANGED <<sortVars, runVars, ONLINE_CPUS, lifeVars, csvVars, container_raw_metrics,
                   container_metrics, read_errors, sampled, operator_summary,
                   dagVars, attempts, triton_models_names, verified,
                   requests_get>>

ProbeNext == ServerGet \/ WindowElapsed \/ ModelGet \/ ProbeReturn

ProbeSpec == ProbeInit /\ [][ProbeNext]_vars

(***************************************************************************)
(* Part VII.  sample_operator feeding write_to_csv through the queue, on   *)
(* the Metrics that sample_metrics derives.                                *)
(***************************************************************************)

\* container.py line 31: the field names of Metrics
METRICS_HEADER == <<"timestamp", "cpu_percent", "memory">>

\* sample_operator line 150: que.put(0)
Zero == [kind |-> "int", value |-> 0]

\* run_operator after line 329: the identifier was acquired, the paths are
\* constructed, the writer process was started with write_que, and
\* sample_operator has seen the files
CsvInit ==
    /\ operators = <<>>
    /\ execution_order = NotRun
    /\ resorted = NotRun
    /\ local_dag = NoDag
    /\ uses_models = FALSE
    /\ uses_services = FALSE
    /\ continue_option = "NONE"
    /\ metrics_output = TRUE
    /\ RunIdle
    /\ ONLINE_CPUS \in OnlineCpus
    /\ container_raw_metrics = <<>>
    /\ container_metrics = <<>>
    /\ read_errors = 0
    /\ sampled = NoValue
    /\ operator_summary = NoValue
    /\ graph = PipelineDAG
    /\ sequence = NotRun
    /\ ProbeIdle
    /\ container_self_id = "id"
    /\ container_metric_paths = metric_paths_of("id")
    /\ read_errno = 0
    /\ raised = "none"
    /\ csv_que = <<>>
    /\ csv_file = <<>>
    /\ writer_pc = "open"
    /\ sampler_pc = "sampling"

\* sample_operator lines 134-137: the files exist, sample_metrics reads a raw
\* sample, and what it returned is put on the queue
SamplerPutsSample ==
    /\ sampler_pc = "sampling"
    /\ Len(container_raw_metrics) + read_errors < MaxReads
    /\ \E cpu \in CpuReadings, sys_cpu \in SysCpuReadings,
          memory \in MemoryReadings :
          LET per_cpu == "per_cpu_a"
              r == derive(container_raw_metrics, container_metrics,
                          RawMetrics(utcnow, cpu, per_cpu, sys_cpu, memory))
          IN  /\ container_raw_metrics' = r.raw_metrics
              /\ container_metrics' = r.metrics
              /\ sampled' = r.value
              /\ csv_que' = Append(csv_que, r.value)
    /\ read_errno' = 0
    /\ UNCHANGED <<sortVars, runVars, dagVars, probeVars, ONLINE_CPUS,
                   read_errors, operator_summary, container_self_id,
                   container_metric_paths, raised, csv_file, writer_pc,
                   sampler_pc>>

\* sample_operator lines 134-137: sample_metrics swallowed a read error and
\* returned None, which is put on the queue
SamplerPutsNone ==
    /\ sampler_pc = "sampling"
    /\ Len(container_raw_metrics) + read_errors < MaxReads
    /\ \E file \in MetricFiles, errno \in ReadErrnos :
          /\ swallows(errno)
          /\ read_errno' = errno
    /\ read_errors' = read_errors + 1
    /\ sampled' = None
    /\ csv_que' = Append(csv_que, None)
    /\ UNCHANGED <<sortVars, runVars, dagVars, probeVars, ONLINE_CPUS,
                   container_raw_metrics, container_metrics,
                   operator_summary, container_self_id,
                   container_metric_paths, raised, csv_file, writer_pc,
                   sampler_pc>>

\* sample_operator line 135: sample_metrics raises another OSError, which
\* sample_operator does not catch
SamplerRaises ==
    /\ sampler_pc = "sampling"
    /\ Len(container_raw_metrics) + read_errors < MaxReads
    /\ \E file \in MetricFiles, errno \in ReadErrnos :
          /\ ~swallows(errno)
          /\ read_errno' = errno
    /\ raised' = "OSError"
    /\ sampler_pc' = "OSError"
    /\ UNCHANGED <<sortVars, runVars, dagVars, probeVars, ONLINE_CPUS,
                   container_raw_metrics, container_metrics, read_errors,
                   sampled, operator_summary, container_self_id,
                   container_metric_paths, csv_que, csv_file, writer_pc>>

\* sample_operator lines 134 and 149-150: the files are gone, the sentinel is
\* put and sample_operator returns
SamplerPutsSentinel ==
    /\ sampler_pc = "sampling"
    /\ csv_que' = Append(csv_que, Zero)
    /\ sampler_pc' = "returned"
    /\ UNCHANGED <<sortVars, runVars, dagVars, probeVars, ONLINE_CPUS,
                   container_raw_metrics, container_metrics, read_errors,
                   sampled, operator_summary, lifeVars, csv_file, writer_pc>>

\* write_to_csv lines 174-176: the file is opened and the header written
WriterOpen ==
    /\ writer_pc = "open"
    /\ csv_file' = <<METRICS_HEADER>>
    /\ writer_pc' = "get"
    /\ UNCHANGED <<sortVars, runVars, dagVars, probeVars, ONLINE_CPUS,
                   container_raw_metrics, container_metrics, read_errors,
                   sampled, operator_summary, lifeVars, csv_que, sampler_pc>>

\* dataclasses.asdict of a Metrics
asdict(item) ==
    [timestamp |-> item.timestamp, cpu_percent |-> item.cpu_percent,
     memory |-> item.memory]

\* a writer that puts the newest row first after the header
writerow_first(file, item) == <<Head(file), asdict(item)>> \o Tail(file)

\* write_to_csv lines 184-185: csv_writer.writerow and f.flush
writerow(file, item) == Append(file, asdict(item))

\* write_to_csv lines 178-185: one pass of the while loop, que.get() returns
\* once an item is on the queue
WriterGet ==
    /\ writer_pc = "get"
    /\ csv_que # <<>>
    /\ LET item == Head(csv_que) IN
       IF item = None
       THEN UNCHANGED <<csv_file, writer_pc>>
       ELSE IF item = Zero
       THEN writer_pc' = "closed" /\ UNCHANGED csv_file
       ELSE csv_file' = writerow(csv_file, item) /\ UNCHANGED writer_pc
    /\ csv_que' = Tail(csv_que)
    /\ UNCHANGED <<sortVars, runVars, dagVars, probeVars, ONLINE_CPUS,
                   container_raw_metrics, container_metrics, read_errors,
                   sampled, operator_summary, lifeVars, sampler_pc>>

CsvNext ==
    \/ SamplerPutsSample
    \/ SamplerPutsNone
    \/ SamplerRaises
    \/ SamplerPutsSentinel
    \/ WriterOpen
    \/ WriterGet

CsvSpec == CsvInit /\ [][CsvNext]_vars

(***************************************************************************)
(* Claims about the sorter.                                                *)
(***************************************************************************)

\* the `from` references of ops, as edges <<dependency, dependent>>
Edges(ops) ==
    UNION { { <<ops[i].inputs[j], ops[i].name>> : j \in 1..Len(ops[i].inputs) } :
            i \in 1..Len(ops) } \cap (Names \X Names)

Compose(R, S) ==
    { <<a, c>> \in Names \X Names :
        \E b \in Names : <<a, b>> \in R /\ <<b, c>> \in S }

RECURSIVE TransitiveClosure(_)
TransitiveClosure(R) ==
    LET R1 == R \cup Compose(R, R)
    IN IF R1 = R THEN R ELSE TransitiveClosure(R1)

\* no operator depends on itself through a chain of `from` references
Acyclic(ops) == \A n \in Names : <<n, n>> \notin TransitiveClosure(Edges(ops))

\* every `from` names an operator of the pipeline
AllRefsKnown(ops) == \A e \in Edges(ops) : HasName(ops, e[1])

\* s holds every element of t exactly once and nothing else
IsPermutation(s, t) ==
    /\ Len(s) = Len(t)
    /\ \A i \in 1..Len(t) : Cardinality({j \in 1..Len(s) : s[j] = t[i]}) = 1

\* in s, every operator named by a `from` stands before the operator naming it
RespectsFrom(s, ops) ==
    \A e \in Edges(ops) :
        \A i, j \in 1..Len(s) :
            (s[i].name = e[2] /\ s[j].name = e[1]) => j < i

\* C1: for a pipeline of two or more operators whose `from` references are
\* acyclic, topo_sort_pipeline returns a permutation of the input list (every
\* operator once, with or without dependencies) that puts every operator
\* named by a `from` before the operators naming it.
C1_SortedIsPermutation ==
    ( /\ execution_order # NotRun
      /\ Len(operators) >= 2
      /\ AllRefsKnown(operators)
      /\ Acyclic(operators) )
    => /\ execution_order.status = "ok"
       /\ IsPermutation(execution_order.order, operators)
       /\ RespectsFrom(execution_order.order, operators)

(***************************************************************************)
(* Claims about one run of the pipeline.                                   *)
(***************************************************************************)

\* the operator containers that are running
RunningContainers == {i \in OpIds : container[i] = "running"}

\* C2: operators execute one at a time: under every policy and every outcome
\* of an operator, the container of the next operator is launched only after
\* the container of the previous one has stopped, so two operator containers
\* never run at once.
C2_OneContainerAtATime == Cardinality(RunningContainers) <= 1

\* run_operator is past p_start.join() of an operator whose identifier came:
\* the final exit status of the operator is p_start.exitcode
StatusKnown ==
    /\ pc \in {"summary", "check_exit", "prompt", "returned"}
    /\ ~timed_out

\* C3: once the final status of an operator is known, the orchestrator
\* leaves the operator as the policy says: on status zero, or on a non-zero
\* status under `continue` or a prompt answered yes, it goes on to the next
\* operator; on a non-zero status under `stop` or a prompt answered no it
\* launches no later operator; and a zero status is never prompted.
C3_FailurePolicy ==
    [][ /\ (StatusKnown /\ pc' \notin {"summary", "check_exit", "prompt", "returned"})
           => IF exitcode = 0 \/ continue_option = "CONT"
              THEN pc' = "loop"
              ELSE IF continue_option = "STOP"
              THEN pc' # "loop"
              ELSE pc = "returned" => (pc' = "loop" <=> ~exit)
        /\ (StatusKnown /\ exitcode = 0) => pc' # "prompt"
      ]_vars

\* C4: in pipeline-services mode, when the run has ended (by completion, by
\* a policy abort or by an error, a failed start or probe of a service
\* included) no service container started in the run is running and the
\* registry of running services is empty.
C4_ServicesCleanedUp ==
    (pc = "done" /\ triton_mode = "PIPELINE_SERVICES")
    => svc_running = {} /\ running_services = {}

\* C5: in model-repository mode, an inference service container that was
\* started has been killed by the time run_triton_model_repo exits, on every
\* exit path, a failed address lookup or readiness probe included.
C5_ModelRepoTritonKilled ==
    (pc = "done" /\ triton_mode = "MODEL_REPO") => svc_running = {}

\* C6: the temporary directory is removed on every exit path, with or
\* without a metrics directory: the cleanup never blocks forever, that is,
\* when the run joins its csv writers every writer has ended or will end.
C6_CleanupNeverBlocks ==
    pc = "join_writers" => \A i \in OpIds : writer[i] # "running"

\* C7: a drained line that is not an identifier ends the operator run at
\* once: the orchestrator acts on the failure without waiting for the
\* identifier timeout to elapse.
C7_MalformedLineFatalAtOnce ==
    (raw_id = "bad" /\ pc # "wait_id") => ~timed_out

\* C8: whenever the identifier wait times out the operator is treated as
\* failed, whatever the state of the launcher: `stop` aborts, the prompt is
\* asked, `continue` proceeds.
C8_TimeoutIsFailure ==
    [][ (timed_out /\ pc = "check_exit" /\ pc' # pc)
        => IF continue_option = "STOP" THEN pc' = "returned" /\ exit'
           ELSE IF continue_option = "CONT" THEN pc' = "returned" /\ ~exit'
           ELSE pc' = "prompt"
      ]_vars

\* C9: on identifier timeout, once run_operator has returned, neither the
\* client cmd_proc nor the drain task checker of that operator is alive.
C9_TimeoutLeavesNoProcess ==
    (timed_out /\ pc = "returned")
    => client[idx] # "running" /\ checker # "alive"

\* C10: on identifier timeout sampling never starts for the operator: no
\* accounting file is polled, no RawMetrics or Metrics is recorded, nothing
\* is put on the metrics queue, and no summary is stored under its name.
C10_TimeoutNeverSamples ==
    timed_out
    => /\ pc \notin {"wait_files", "sample_loop", "sample_read", "join", "summary"}
       /\ raw_metrics = 0
       /\ metrics = 0
       /\ write_que = <<>>
       /\ summary_key = "absent"

\* run_operator returns after a timeout, with a metrics queue at hand and
\* the container of the operator running all the same
C10_Witness ==
    /\ timed_out
    /\ pc = "returned"
    /\ metrics_output
    /\ container[idx] = "running"

\* C11: a malformed identifier or an identifier timeout aborts the whole
\* run: after it no later operator of the execution order is launched, under
\* every continuation policy (the malformed line too is acted on through the
\* timeout branch of run_operator).
C11_TimeoutAbortsRun ==
    [][ (timed_out /\ pc = "returned" /\ idx < NumOps) => pc' # "loop" ]_vars

\* the launcher has left its poll loop through the loop's else clause: the
\* client had ended and no line had been read
LeftLoopWithoutLine ==
    /\ pcL = "exited"
    /\ raw_id = "none"
    /\ exitcode # SIGTERM

\* C12: if the client ends before the poll loop has read an identifier line,
\* the launch counts as failed: start_operator ends with a non-zero exit
\* status and never sets the event, whatever exit code the client returned.
C12_ClientExitIsFailure ==
    LeftLoopWithoutLine => exitcode # 0 /\ ~id_returned_event

\* the launcher has read the identifier and has ended by itself
EndedAfterIdentifier ==
    /\ pcL = "exited"
    /\ raw_id = "good"
    /\ ~timed_out

\* C13: after the identifier has been acquired the exit status of the
\* launcher is decided by what `docker wait` printed alone: 0 for "0", the
\* printed integer for another integer, 1 for anything else; the event has
\* been set in all three cases.
C13_WaitQueryDecidesStatus ==
    EndedAfterIdentifier
    => /\ id_returned_event
       /\ wait_stdout \in {"0", "125", "error"}
       /\ wait_stdout = "0" => exitcode = 0
       /\ wait_stdout = "125" => exitcode = NonZeroStatus
       /\ wait_stdout = "error" => exitcode = 1

\* the launcher ended with the integer `docker wait` printed
C13_Witness ==
    /\ EndedAfterIdentifier
    /\ wait_stdout = "125"
    /\ exitcode = NonZeroStatus
    /\ client[idx] = "exited"

\* sample_operator has returned to run_operator
SamplerReturned ==
    \/ pc \in {"join", "summary"}
    \/ pc \in {"check_exit", "prompt", "returned"} /\ ~timed_out

Max(a, b) == IF a >= b THEN a ELSE b

\* the parts of C15 that do not count: no sample before the files are seen,
\* and one false check at the sampling loop ends checks and samples
SamplesFollowChecks ==
    /\ pc = "wait_files" => sample_calls = 0 /\ loop_false = 0
    /\ pc \in {"sample_loop", "sample_read"} => loop_false = 0
    /\ SamplerReturned => loop_false = 1

\* C15 as stated: sample_operator samples only directly after an existence
\* check that returned true, none before the files are first seen and none
\* after the first false check of the sampling loop, so k true checks yield
\* exactly k sample_metrics calls and at most k-1 Metrics.
C15_KChecksKSamples ==
    /\ SamplesFollowChecks
    /\ SamplerReturned
       => /\ sample_calls = checks_true
          /\ metrics <= Max(0, checks_true - 1)

\* C15 amended: the true check that ends the wait for the files is followed
\* by the test of the sampling loop, not by a sample, so k true checks yield
\* exactly k-1 sample_metrics calls and at most k-2 Metrics; every call
\* directly follows a true check of the sampling loop.
C15_KChecksKMinusOneSamples ==
    /\ SamplesFollowChecks
    /\ pc = "sample_loop" => sample_calls = checks_true - 1
    /\ pc = "sample_read" => sample_calls = checks_true - 2
    /\ SamplerReturned
       => /\ sample_calls = checks_true - 1
          /\ metrics <= Max(0, checks_true - 2)

\* three true checks, two samples, one Metrics
C15_Witness ==
    /\ SamplerReturned
    /\ checks_true = 3
    /\ sample_calls = 2
    /\ metrics = 1

\* the number of items of s that are x
RECURSIVE Count(_, _)
Count(s, x) ==
    IF s = <<>> THEN 0
    ELSE (IF Head(s) = x THEN 1 ELSE 0) + Count(Tail(s), x)

\* C16: with a consumer queue, when sample_operator returns it has put
\* exactly one sentinel, the sentinel is the last item it ever puts, and the
\* items before it are the results of the sample_metrics calls, one each (a
\* Metrics or None), in sampling order.
C16_SentinelEndsStream ==
    metrics_output
    => /\ \A i \in 1..Len(write_que) :
              IF write_que[i] = "sentinel"
              THEN i = Len(write_que)
                   /\ pc \notin {"wait_files", "sample_loop", "sample_read"}
              ELSE write_que[i] \in {"Metrics", "None"}
       /\ Count(write_que, "Metrics") = metrics
       /\ write_que # <<>> => write_que[1] # "Metrics"
       /\ SamplerReturned
          => /\ Len(write_que) = sample_calls + 1
             /\ write_que[Len(write_que)] = "sentinel"

\* sample_operator returned after None, a Metrics and the sentinel
C16_Witness ==
    /\ metrics_output
    /\ pc = "join"
    /\ write_que = <<"None", "Metrics", "sentinel">>

(***************************************************************************)
(* Claims about the metrics of a container.                                *)
(***************************************************************************)

\* C14: after every sequence of sample_metrics calls, reads that succeed
\* and read errors that are swallowed in any order, the number of Metrics
\* is max(0, number of RawMetrics - 1) and the i-th Metrics is the one
\* derived from the i-th and the (i+1)-th RawMetrics; in particular there
\* is no Metrics while there are fewer than two RawMetrics.
C14_MetricsPairAdjacentRaw ==
    /\ Len(container_metrics) = Max(0, Len(container_raw_metrics) - 1)
    /\ \A i \in DOMAIN container_metrics :
          container_metrics[i] =
              process_raw_data(container_raw_metrics[i],
                               container_raw_metrics[i + 1])

C14_Witness ==
    /\ Len(container_raw_metrics) = 3
    /\ Len(container_metrics) = 2
    /\ container_metrics[2] # process_raw_data(container_raw_metrics[1],
                                                container_raw_metrics[3])
    /\ sampled = container_metrics[2]


\* the deltas of the pair of raw samples the i-th Metrics is derived from
CpuDelta(i) == container_raw_metrics[i + 1].cpu - container_raw_metrics[i].cpu

HostDelta(i) ==
    RatSub(container_raw_metrics[i + 1].sys_cpu,
           container_raw_metrics[i].sys_cpu)

BothPositive(i) == CpuDelta(i) > 0 /\ RatLess(Float(0), HostDelta(i))

\* C17: for every pair of adjacent raw samples the derived cpu_percent is
\* exactly 0 whenever the delta of the container's cpu counter is <= 0 or
\* the delta of the host's cpu time is <= 0 (negative deltas and a host
\* delta of zero included).
C17_NoShareWithoutProgress ==
    \A i \in DOMAIN container_metrics :
        ~BothPositive(i) => container_metrics[i].cpu_percent = Float(0)

C17_Witness ==
    \E i \in DOMAIN container_metrics, j \in DOMAIN container_metrics :
        /\ CpuDelta(i) > 0 /\ HostDelta(i) = Float(0)
        /\ container_metrics[i].cpu_percent = Float(0)
        /\ CpuDelta(j) < 0 /\ RatLess(Float(0), HostDelta(j))
        /\ container_metrics[j].cpu_percent = Float(0)

CpuPercents ==
    [i \in DOMAIN container_metrics |-> container_metrics[i].cpu_percent]

Memories == [i \in DOMAIN container_metrics |-> container_metrics[i].memory]

\* C18: the recommendation of an operator is computed from the maximum over
\* all its Metrics: the recommended number of cores is the least integer n
\* with 100 * n >= max cpu_percent, and the recommended memory is the least
\* multiple of 256 that is >= max memory + 100.
C18_RecommendationCoversMaximum ==
    operator_summary.kind = "data" =>
        LET n == operator_summary.recommended_cpu
            m == operator_summary.recommended_memory
            need == RatAdd(max(Memories), Float(100))
        IN  /\ RatLeq(max(CpuPercents), Float(100 * n))
            /\ RatLess(Float(100 * (n - 1)), max(CpuPercents))
            /\ m % 256 = 0
            /\ RatLeq(need, Float(m))
            /\ RatLess(Float(m - 256), need)

\* C19: for two adjacent raw samples with both deltas positive the derived
\* Metrics has timestamp (prev.timestamp + cur.timestamp)/2, memory
\* (prev.memory + cur.memory)/2/1e6 and cpu_percent
\* ((cur.cpu - prev.cpu)/1e9) / (cur.sys_cpu - prev.sys_cpu) * cores * 100,
\* whatever the per-core counters of the two samples are.
C19_DerivedMetricsFormula ==
    \A i \in DOMAIN container_metrics :
        BothPositive(i) =>
            LET prev == container_raw_metrics[i]
                cur == container_raw_metrics[i + 1]
                m == container_metrics[i]
            IN  /\ RatMul(m.timestamp, Float(2))
                       = Float(prev.timestamp + cur.timestamp)
                /\ RatMul(RatMul(m.memory, Float(1000000)), Float(2))
                       = Float(prev.memory + cur.memory)
                /\ m.cpu_percent =
                       RatMul(RatMul(RatDiv(RatDiv(Float(CpuDelta(i)),
                                                   Float(1000000000)),
                                            HostDelta(i)),
                                     Float(ONLINE_CPUS)), Float(100))
                /\ \A p \in PerCpuReadings, c \in PerCpuReadings :
                       process_raw_data([prev EXCEPT !.per_cpu = p],
                                        [cur EXCEPT !.per_cpu = c]) = m

C19_Witness ==
    /\ ONLINE_CPUS = 4
    /\ \E i \in DOMAIN container_metrics :
          /\ BothPositive(i)
          /\ container_raw_metrics[i].per_cpu
                 # container_raw_metrics[i + 1].per_cpu
          /\ container_raw_metrics[i].memory
                 # container_raw_metrics[i + 1].memory
          /\ container_metrics[i].cpu_percent = Rat(250001, 2500)

(***************************************************************************)
(* Claims about the services of a pipeline.                                *)
(***************************************************************************)

Range(s) == {s[i] : i \in DOMAIN s}

\* the Triton services that the operator being executed and the operator
\* before it both declare, by identity
SharedServices ==
    {s \in Range(op_config.services) :
        /\ IsTritonName(s.name)
        /\ \E p \in Range(prev_config.services) : p.key = s.key}

\* the services of op_config are reconciled and it is about to be run
ServicesReady == pc = "run_operator" /\ idx >= 2

\* C20: in pipeline-services mode, when two operators processed one after
\* the other declare a service with the same identity, the service is
\* started once and not torn down between them (the container the first
\* operator was given is the one registered and running for the second),
\* and both operators hold for every connection name of the service the
\* same value built from the address of that container.
C20_SharedServiceReused ==
    ServicesReady =>
        \A s \in SharedServices :
            \E r \in running_services :
                /\ r.key = s.key
                /\ r.cid \in svc_running
                /\ \A c \in s.http_connections :
                      LET value == <<c[1], <<r.ip_address, c[2]>> >>
                      IN  /\ value \in prev_config.variables
                          /\ value \in op_config.variables

\* C21: in pipeline-services mode the registry of running services holds
\* at most one entry and at most one service container started by the tool
\* is running in every reachable state; when a service with a new identity
\* is started, every registered service has been killed and the registry is
\* empty.
C21_OneServiceGeneration ==
    triton_mode = "PIPELINE_SERVICES" =>
        /\ Cardinality(running_services) <= 1
        /\ Cardinality(svc_running) <= 1
        /\ pc = "triton_run" => running_services = {} /\ svc_running = {}

C21_Witness ==
    /\ triton_mode = "PIPELINE_SERVICES"
    /\ svc_count = 2
    /\ svc_running = {2}
    /\ \E r \in running_services : r.cid = 2 /\ r.key = TritonB.key

\* C22: sorting is idempotent: for every acyclic pipeline the sorted list,
\* sorted again, is the same sequence.
C22_SortIdempotent ==
    (execution_order.status = "ok" /\ resorted # NotRun)
        => resorted = execution_order

\* C23: for every pipeline whose `from` references contain a cycle (a cycle
\* beside acyclic parts of the graph and an operator naming itself
\* included) sorting fails with the cycle error and returns no order.
C23_CycleIsRejected ==
    (execution_order # NotRun /\ ~Acyclic(operators))
        => execution_order.status = "RuntimeError"

(***************************************************************************)
(* Claims about the mode of a run.                                         *)
(***************************************************************************)

SomeModels(ops) == \E i \in 1..Len(ops) : ops[i].models

SomeServices(ops) == \E i \in 1..Len(ops) : ops[i].services # <<>>

\* C24: decide_method_to_run_triton decides over the whole list: it ends
\* fatally iff some operator declares models and some operator, the same
\* or another, declares services; otherwise it returns the model-repository
\* mode iff some operator declares models, the pipeline-services mode iff
\* some operator declares services, and the no-inference-server mode iff
\* no operator declares either.
C24_ModeDecision ==
    triton_mode # "unset" =>
        LET m == SomeModels(execution_order.order)
            s == SomeServices(execution_order.order)
        IN  /\ triton_mode = "SystemExit" <=> (m /\ s)
            /\ triton_mode = "MODEL_REPO" <=> (m /\ ~s)
            /\ triton_mode = "PIPELINE_SERVICES" <=> (s /\ ~m)
            /\ triton_mode = "NO_INFERENCE_SERVER" <=> (~m /\ ~s)

C24_Witness ==
    /\ triton_mode = "SystemExit"
    /\ Len(execution_order.order) = 3
    /\ execution_order.order[1].models
    /\ execution_order.order[3].services # <<>>
    /\ \A i \in 1..3 : ~(execution_order.order[i].models
                           /\ execution_order.order[i].services # <<>>)

\* nothing was created by the run: no service container, no operator
\* client or container, no csv writer, no temporary directory
NothingStarted ==
    /\ svc_count = 0
    /\ svc_running = {}
    /\ tmpdir = "none"
    /\ \A i \in OpIds :
          client[i] = "none" /\ container[i] = "none" /\ writer[i] = "none"

\* C25: when a pipeline declares models and services together, run_pipeline
\* aborts with the fatal error before anything is started: no operator
\* container, no inference-service container and no temporary directory
\* exists at any time of the run.
C25_MixedPipelineAbortsFirst ==
    (uses_models /\ uses_services) =>
        /\ NothingStarted
        /\ pc \in {"run_pipeline", "done"}
        /\ pc = "done" => exc = "SystemExit"

C25_Witness ==
    /\ uses_models /\ uses_services
    /\ pc = "done"
    /\ triton_mode = "SystemExit"
    /\ exc = "SystemExit"

\* C26: in model-repository mode, when the models directory is not given, a
\* required model has no manifest or a manifest names another model than
\* its directory, the run ends with that configuration error as its
\* reported cause, and no inference-service or operator container is
\* started or killed.
C26_ConfigurationErrorReported ==
    [][ (pc = "repo_finally" /\ exc \in ConfigurationErrors)
            => (exc' = exc /\ NothingStarted')
      ]_vars

(***************************************************************************)
(* Claims about PipelineDAG.                                               *)
(***************************************************************************)

IndexOf(s, n) == CHOOSE i \in 1..Len(s) : s[i] = n

LastIndexOf(s, n) ==
    CHOOSE i \in 1..Len(s) : s[i] = n /\ \A j \in (i + 1)..Len(s) : s[j] # n

Predecessors(n) == {p \in Nodes : InSeq(n, graph.out[p])}

\* the predecessor of n that the order emits last
LastPredecessor(order, n) ==
    CHOOSE p \in Predecessors(n) :
        \A r \in Predecessors(n) : IndexOf(order, r) <= IndexOf(order, p)

\* the moment n enters a FIFO queue: a node without predecessors at the
\* start, in the order of its registration; any other node when its last
\* predecessor is emitted, at the last edge that predecessor has to it
Readiness(order, n) ==
    IF graph.deg[n] = 0 THEN <<0, IndexOf(graph.deg_keys, n)>>
    ELSE LET p == LastPredecessor(order, n)
         IN  <<IndexOf(order, p), LastIndexOf(graph.out[p], n)>>

Earlier(a, b) == a[1] < b[1] \/ (a[1] = b[1] /\ a[2] < b[2])

\* C27: topological_sort returns the order of Kahn's algorithm with a FIFO
\* queue: the nodes without predecessors first, in the order of their
\* first registration, and every other node in the order in which the
\* in-degrees reach zero, the successors of a node being visited in the
\* order their edges were added; the six edges of test_topo_sort give
\* [5, 4, 2, 0, 3, 1].
C27_FifoKahnOrder ==
    sequence.status = "ok" =>
        LET order == sequence.order IN
        /\ Len(order) = Len(graph.deg_keys)
        /\ \A n \in Nodes : InSeq(n, graph.deg_keys) => InSeq(n, order)
        /\ \A i, j \in 1..Len(order) :
              i < j => Earlier(Readiness(order, order[i]),
                               Readiness(order, order[j]))
        /\ graph = AddEdges(PipelineDAG, test_topo_sort)
              => order = <<5, 4, 2, 0, 3, 1>>

C27_Witness ==
    /\ graph = AddEdges(PipelineDAG, test_topo_sort)
    /\ sequence = [status |-> "ok", order |-> <<5, 4, 2, 0, 3, 1>>]

(***************************************************************************)
(* Claims about the readiness probe.                                       *)
(***************************************************************************)

\* the server answered 200 and then every required model answered 200
AllAnswered200 ==
    \E i \in 1..Len(requests_get) :
        /\ requests_get[i] = Get("server", "200")
        /\ Len(requests_get) = i + Len(triton_models_names)
        /\ \A k \in 1..Len(triton_models_names) :
              requests_get[i + k] = Get(triton_models_names[k], "200")

\* C28: check_triton_status returns normally iff the server endpoint
\* answers 200 within the window and then every required model answers
\* 200; a connection error in the window is retried, the first answer
\* other than 200 (server or model) is fatal without a retry, a window
\* that elapses raises TimeoutError, and no model endpoint is queried
\* before the server endpoint has answered 200.
C28_ReadinessProbe ==
    LET n == Len(requests_get) IN
    /\ status_pc = "returned" => AllAnswered200
    /\ AllAnswered200 => status_pc \in {"models", "returned"}
    /\ \A i \in 1..n :
          requests_get[i].url # "server"
              => \E j \in 1..(i - 1) : requests_get[j] = Get("server", "200")
    /\ \A i \in 1..n :
          requests_get[i].outcome = "400"
              => i = n /\ status_pc = "SystemExit"
    /\ \A i \in 1..n :
          requests_get[i] = Get("server", "ConnectionError")
              => IF i < n THEN requests_get[i + 1].url = "server"
                 ELSE status_pc \in {"window", "TimeoutError"}
    /\ status_pc = "TimeoutError" =>
          /\ n >= 1
          /\ \A i \in 1..n :
                requests_get[i] = Get("server", "ConnectionError")
    /\ status_pc = "SystemExit" => n >= 1 /\ requests_get[n].outcome = "400"

C28_Witness ==
    /\ status_pc = "returned"
    /\ requests_get = << Get("server", "ConnectionError"),
                         Get("server", "200"),
                         Get("model1", "200"), Get("model2", "200") >>

\* the names of the four variables that point an operator at Triton
TritonEnvNames ==
    { TRITON_HTTP_ENV_VAR, LEGACY_TRITON_HTTP_ENV_VAR,
      LEGACY_TRTIS_HTTP_ENV_VAR, TRITON_GRPC_ENV_VAR }

\* the four entries for the server at the given address
TritonEnvOf(address) ==
    { <<TRITON_HTTP_ENV_VAR, <<address, 8000>> >>,
      <<LEGACY_TRITON_HTTP_ENV_VAR, <<address, 8000>> >>,
      <<LEGACY_TRTIS_HTTP_ENV_VAR, <<address, 8000>> >>,
      <<TRITON_GRPC_ENV_VAR, <<address, 8001>> >> }

IdentifierWritten == container_id = idx /\ raw_id = "good"

\* C30: during a launch, whenever the event is set the shared value already
\* holds the identifier read from a line of length 65 and the launcher is past
\* its loop; the event is set only by the launcher's step after the write,
\* neither the event nor the value changes while the event stays set, and the
\* orchestration flow is past a successful wait only with the identifier
\* written
C30_IdentifierBeforeEvent ==
    /\ [](id_returned_event =>
            IdentifierWritten /\ pcL \in {"docker_wait", "exited"})
    /\ [](pc = "wait_files" => id_returned_event /\ IdentifierWritten)
    /\ [][ /\ (~id_returned_event /\ id_returned_event') =>
                (pcL = "set_event" /\ IdentifierWritten
                    /\ container_id' = container_id)
           /\ (id_returned_event /\ id_returned_event') =>
                (container_id' = container_id /\ raw_id' = raw_id) ]_vars

\* C30 witness: the flow is past a successful wait in the launch of the
\* second operator, with the event set and the identifier written
C30_Witness ==
    /\ pc = "wait_files"
    /\ idx = 2
    /\ id_returned_event
    /\ IdentifierWritten
    /\ pcL = "docker_wait"

\* C31: a call of sample_metrics in which the read of an accounting file
\* failed leaves Container.raw_metrics and Container.metrics as they were;
\* on file-not-found (ENOENT) or errno 19 it returns None and raises nothing,
\* on any other errno the OSError reaches the caller
C31_TransientReadErrorSwallowed ==
    [][ (operator_summary' = NoValue /\ read_errno' # 0) =>
            /\ container_raw_metrics' = container_raw_metrics
            /\ container_metrics' = container_metrics
            /\ IF read_errno' \in {2, 19}
               THEN raised' = "none" /\ sampled' = None
               ELSE raised' = "OSError" ]_vars

\* C31 witness: after one raw sample was recorded, a call failed with errno
\* 19 and returned None with the one raw sample still the whole history
C31_Witness ==
    /\ read_errno = 19
    /\ raised = "none"
    /\ sampled = None
    /\ read_errors = 1
    /\ Len(container_raw_metrics) = 1
    /\ container_metrics = <<>>
    /\ operator_summary = NoValue

\* C32: a pass of start_pipeline_services over a declared service whose name
\* holds neither "trtis" nor "triton" and whose identity is not in the
\* registry starts no container, kills no running service container, leaves
\* the registry as it was and leaves the operator's variables unchanged
C32_UnsupportedServiceSkipped ==
    [][ ( /\ pc = "services"
          /\ svc_todo # <<>>
          /\ ~IsTritonName(Head(svc_todo).name)
          /\ ~\E r \in running_services : r.key = Head(svc_todo).key )
        => /\ svc_count' = svc_count
           /\ svc_running' = svc_running
           /\ running_services' = running_services
           /\ op_config'.variables = op_config.variables ]_vars

\* nothing was recorded by sample_metrics
NothingRecorded ==
    /\ container_raw_metrics = <<>>
    /\ container_metrics = <<>>
    /\ read_errors = 0

\* C33: the paths are set only from a non-empty identifier, and a RawMetrics
\* entry is recorded only with the paths built from the identifier; a call of
\* construct_metrics_path or sample_metrics that leaves the paths unset (the
\* identifier is empty, or the paths were not constructed) raises RuntimeError
\* and records nothing
C33_LifecycleOrder ==
    /\ [](container_metric_paths # <<>> =>
            /\ container_self_id # ""
            /\ container_metric_paths = metric_paths_of(container_self_id))
    /\ [](~NothingRecorded => container_metric_paths # <<>>)
    /\ [][ ( /\ operator_summary' = NoValue
             /\ container_self_id' = container_self_id
             /\ container_metric_paths' = <<>> )
           => raised' = "RuntimeError" /\ NothingRecorded' ]_vars

\* C33 witness: a call on a Container with an empty identifier raised
\* RuntimeError and left the paths unset and the histories empty
C33_Witness ==
    /\ raised = "RuntimeError"
    /\ container_self_id = ""
    /\ container_metric_paths = <<>>
    /\ NothingRecorded

(***************************************************************************)
(* Claims about the csv file of an operator.                               *)
(***************************************************************************)

\* the lines of the file after the header
RowsOf(file) == IF file = <<>> THEN <<>> ELSE Tail(file)

\* the rows of a sequence of Metrics
AsRows(metrics_list) ==
    [i \in DOMAIN metrics_list |->
        [timestamp |-> metrics_list[i].timestamp,
         cpu_percent |-> metrics_list[i].cpu_percent,
         memory |-> metrics_list[i].memory]]

IsMetricsItem(item) == item # None /\ item # Zero

\* C34: the file starts with the header, and its rows followed by the rows
\* of the Metrics still on the queue are the derived Metrics of the
\* container in derivation order, so None adds no row; once the writer has
\* met the sentinel the queue is empty, the rows are exactly the derived
\* Metrics, and the file does not change any more
C34_CsvRowsAreDerivedMetrics ==
    /\ [](csv_file # <<>> => Head(csv_file) = METRICS_HEADER)
    /\ [](RowsOf(csv_file) \o AsRows(SelectSeq(csv_que, IsMetricsItem))
            = AsRows(container_metrics))
    /\ [](writer_pc = "closed" =>
            /\ sampler_pc = "returned"
            /\ csv_que = <<>>
            /\ RowsOf(csv_file) = AsRows(container_metrics))
    /\ [][writer_pc = "closed" => csv_file' = csv_file]_vars

\* C34 witness: the writer has met the sentinel after a None and two
\* Metrics, and the file holds the header and two rows
C34_Witness ==
    /\ writer_pc = "closed"
    /\ Len(container_raw_metrics) = 3
    /\ Len(container_metrics) = 2
    /\ Len(csv_file) = 3
    /\ csv_file[2].timestamp # csv_file[3].timestamp

\* C35: a pipeline of one operator is returned as the list of that one
\* operator, whatever its bindings name, no PipelineDAG is bound in the call,
\* and the list handed in stays as it was
C35_SingleOperatorIdentity ==
    /\ []((Len(operators) = 1 /\ execution_order # NotRun) =>
            /\ execution_order.status = "ok"
            /\ execution_order.order = operators
            /\ Len(execution_order.order) = 1
            /\ local_dag = NoDag)
    /\ [][operators' = operators]_vars

\* C35 witness: the one operator was returned although a binding of it
\* names an operator that is not in the pipeline, and another names itself
C35_Witness ==
    /\ Len(operators) = 1
    /\ execution_order = [status |-> "ok", order |-> operators]
    /\ \E i \in DOMAIN operators[1].inputs : operators[1].inputs[i] = 2
    /\ \E i \in DOMAIN operators[1].inputs : operators[1].inputs[i] = 1
    /\ local_dag = NoDag

(***************************************************************************)
(* Claims about progress.                                                  *)
(***************************************************************************)

\* C36: in the launch of every operator, once the client has written a line
\* of length 65 the launcher eventually sets the event with the identifier
\* of that operator in the shared value
C36_IdentifierLineSetsEvent ==
    \A i \in OpIds :
        (idx = i /\ Launching(i) /\ out_line = "good")
            ~> (idx = i /\ id_returned_event /\ container_id = i)

\* the position of the flow is inside sample_operator
InSampleOperator == pc \in {"wait_files", "sample_loop", "sample_read"}

\* C37: for every operator whose identifier was acquired, sample_operator,
\* once entered, is eventually left, whenever the container ends
C37_SamplerReturns ==
    \A i \in OpIds :
        (idx = i /\ pc = "wait_files") ~> (idx = i /\ ~InSampleOperator)

\* C38: for an operator whose identifier was acquired, the summary step of
\* run_operator raises nothing and records the entry under the operator's
\* name, and when run_operator returns the one entry of the operator is keyed
\* by its name, or by its name with the suffix when the launcher's exit code
\* is not zero, whatever the number of samples
C38_OneSummaryEntry ==
    /\ [][ (id_returned_event /\ pc = "summary" /\ pc' # "summary") =>
              (exc' = exc /\ pc' = "check_exit" /\ summary_key' = "name") ]_vars
    /\ []((id_returned_event /\ pc = "returned") =>
            summary_key = IF exitcode # 0 THEN "renamed" ELSE "name")

\* C39: in pipeline-services mode, when the operator's container is about to
\* be launched, every connection variable injected into the operator holds
\* the address of a service container that is registered and running
C39_InjectedAddressIsLive ==
    (triton_mode = "PIPELINE_SERVICES" /\ pc = "run_operator") =>
        \A v \in op_config.variables :
            \E r \in running_services :
                /\ r.cid \in svc_running
                /\ v[2][1] = r.ip_address
                /\ \E s \in Range(op_config.services) :
                      r.key = s.key /\ <<v[1], v[2][2]>> \in s.http_connections

====
